---- MODULE Spec2Model ----
(***************************************************************************)
(* Model of two subsystems of the replica:                                 *)
(*   - the ECDSA pre-signer (rs/consensus/src/ecdsa/pre_signer.rs), which  *)
(*     turns a snapshot of the ECDSA artifact pool and of the finalized    *)
(*     block into a ChangeSet, one pass per on_state_change call;          *)
(*   - the payload builder (rs/consensus/src/consensus/payload_builder.rs).*)
(* An artifact id is the hash of the artifact, so an artifact stands for   *)
(* its own id. A ChangeSet is the set of its entries: every pass visits    *)
(* each pool entry once and pushes at most one entry for it.               *)
(***************************************************************************)
EXTENDS Integers, FiniteSets, Sequences, TLC

VARIABLES
    unvalidated,    \* EcdsaPool::unvalidated(): artifacts received from gossip
    validated,      \* EcdsaPool::validated(): artifacts verified or created locally
    block,          \* consensus_cache.finalized_block(): [height, requested]
    schedule,       \* EcdsaPreSignerImpl.schedule: the RoundRobin cursor
    age,            \* age[p]: number of latest on_state_change calls that did not run pass p
    last,           \* the last operation: [op, result], result the ChangeSet returned
    removed,        \* the artifacts that ChangeSets have removed from the pool so far
    consensus_crypto,   \* EcdsaPreSignerImpl.crypto where it is deterministic: its outcomes
    ingress_payload_cache,  \* PayloadBuilderImpl.ingress_payload_cache: key -> id set
    registry,       \* registry_client: registry version -> result of get_subnet_record
    xnet_stream,    \* the stream slice the XNet payload builder holds
    selectors,      \* "fitting": the selectors keep to the byte limit; "fake": they do not
    pb,             \* the last call of the payload builder: [op, result, calls, cached]
    rwlock,         \* the RwLock of ingress_payload_cache: the thread holding the write guard
    thread,         \* thread[t]: where thread t is in its call of the payload builder
    conversion      \* the last conversion of the canonical encoding: [op, version, value, wire, result]

ecdsa_vars == <<unvalidated, validated, block, schedule, age, last, removed, consensus_crypto>>
lock_vars == <<rwlock, thread>>
payload_vars == <<ingress_payload_cache, registry, xnet_stream, selectors, pb, rwlock, thread,
                  conversion>>
vars == <<unvalidated, validated, block, schedule, age, last, removed, consensus_crypto,
          ingress_payload_cache, registry, xnet_stream, selectors, pb, rwlock, thread,
          conversion>>

----------------------------------------------------------------------------
(* Bounds of the model *)

\* Heights are 1..MaxHeight, for the finalized block and for requested_height.
MaxHeight == 2
\* Gossip inserts only while the pool holds fewer artifacts.
MaxPool == 2
\* The same, where the calls are counted.
MaxCountedPool == 2
\* The same, where the batches of the unvalidated half are looked at.
MaxBatch == 3
\* Gossip inserts only while fewer artifacts have been removed, where they are recorded.
MaxRemoved == 2

Heights == 1..MaxHeight
Nodes == {"NODE_1", "NODE_2"}
TranscriptIds == {"id_1", "id_2"}
\* EcdsaPreSignerImpl.node_id
LocalNode == "NODE_1"
NoSigner == "none"

----------------------------------------------------------------------------
(* Data model *)

\* IDkgTranscriptParams of the transcript ids: id_1 is dealt by the local node
\* and received by the other one, id_2 is dealt by the other node and received
\* by both; id_3, which only the blocks of SpecQuiescence request, is dealt by
\* the local node and received by both.
dealers(transcript_id) ==
    IF transcript_id \in {"id_1", "id_3"} THEN {LocalNode} ELSE Nodes \ {LocalNode}

receivers(transcript_id) ==
    IF transcript_id = "id_1" THEN Nodes \ {LocalNode} ELSE Nodes

\* EcdsaDealing {requested_height, transcript_id, dealer_id}
EcdsaDealing(h, t, d) ==
    [kind |-> "dealing", requested_height |-> h, transcript_id |-> t,
     dealer_id |-> d, signer |-> NoSigner]

\* EcdsaDealingSupport {content: EcdsaDealing, signature: {signer}}
EcdsaDealingSupport(dealing, n) ==
    [kind |-> "support", requested_height |-> dealing.requested_height,
     transcript_id |-> dealing.transcript_id, dealer_id |-> dealing.dealer_id,
     signer |-> n]

\* support.content
content(support) ==
    EcdsaDealing(support.requested_height, support.transcript_id, support.dealer_id)

Dealings == {EcdsaDealing(h, t, d) : h \in Heights, t \in TranscriptIds, d \in Nodes}
Supports == {EcdsaDealingSupport(x, n) : x \in Dealings, n \in Nodes}
Artifacts == Dealings \cup Supports

\* pool.dealings() / pool.dealing_support()
dealings(pool) == {a \in pool : a.kind = "dealing"}
dealing_support(pool) == {a \in pool : a.kind = "support"}

dealing_key(a) == <<a.transcript_id, a.dealer_id>>
support_key(a) == <<a.transcript_id, a.dealer_id, a.signer>>

\* EcdsaChangeAction
AddToValidated(msg) == [act |-> "AddToValidated", msg |-> msg]
MoveToValidated(id) == [act |-> "MoveToValidated", msg |-> id]
RemoveUnvalidated(id) == [act |-> "RemoveUnvalidated", msg |-> id]
RemoveValidated(id) == [act |-> "RemoveValidated", msg |-> id]
HandleInvalid(id) == [act |-> "HandleInvalid", msg |-> id]

EcdsaPool == [unvalidated |-> unvalidated, validated |-> validated]

----------------------------------------------------------------------------
(* The crypto engine (ConsensusCrypto) is opaque: one call of a pass sees one
   outcome per crypto call, given as the sets of the inputs on which the call
   fails. *)

NoFailure ==
    [load_fail |-> {},      \* transcripts whose dependencies fail to load
     create_fail |-> {},    \* transcripts for which create_dealing fails
     public_perm |-> {},    \* dealings failing verify_dealing_public, replicated
     public_trans |-> {},   \* dealings failing verify_dealing_public, not replicated
     private_perm |-> {},   \* dealings failing verify_dealing_private, replicated
     private_trans |-> {},  \* dealings failing verify_dealing_private, not replicated
     sign_fail |-> {},      \* dealings for which sign fails
     verify_fail |-> {},    \* supports failing verify
     verify_trans |-> {}]   \* of these, the supports failing with an error not replicated

\* The outcomes of the crypto calls of each pass, on the inputs the pass can hand
\* to the crypto engine.
CreateOutcomes(T) ==
    {[NoFailure EXCEPT !.load_fail = l, !.create_fail = c] :
        l \in SUBSET T, c \in SUBSET T}

PublicOutcomes(D) ==
    UNION {{[NoFailure EXCEPT !.public_perm = p, !.public_trans = t] :
                t \in SUBSET (D \ p)} : p \in SUBSET D}

PrivateOutcomes(D) ==
    UNION {UNION {{[NoFailure EXCEPT !.private_perm = p, !.private_trans = t,
                                      !.sign_fail = f] :
                        f \in SUBSET (D \ (p \cup t))} :
                    t \in SUBSET (D \ p)} : p \in SUBSET D}

VerifyOutcomes(S) ==
    {[NoFailure EXCEPT !.verify_fail = f] : f \in SUBSET S}

\* The same with the errors of verify told apart by is_replicated().
VerifyErrorOutcomes(S) ==
    UNION {{[NoFailure EXCEPT !.verify_fail = f, !.verify_trans = t] :
                t \in SUBSET f} : f \in SUBSET S}

----------------------------------------------------------------------------
(* Helpers of EcdsaPreSignerImpl *)

has_dealer_issued_dealing(ecdsa_pool, transcript_id, dealer_id) ==
    \E dealing \in dealings(ecdsa_pool.validated) :
        dealing.dealer_id = dealer_id /\ dealing.transcript_id = transcript_id

\* has_node_issued_dealing_support looking at the supports of the other nodes only.
has_other_node_issued_dealing_support(ecdsa_pool, transcript_id, dealer_id, node_id) ==
    \E support \in dealing_support(ecdsa_pool.validated) :
        /\ support.dealer_id = dealer_id
        /\ support.transcript_id = transcript_id
        /\ support.signer = node_id
        /\ support.signer # LocalNode

has_node_issued_dealing_support(ecdsa_pool, transcript_id, dealer_id, node_id) ==
    \E support \in dealing_support(ecdsa_pool.validated) :
        /\ support.dealer_id = dealer_id
        /\ support.transcript_id = transcript_id
        /\ support.signer = node_id

\* should_purge without the height bound.
should_purge_ahead(dealing, current_height, in_progress) ==
    dealing.transcript_id \notin in_progress

\* should_purge with the height bound made strict.
should_purge_below(dealing, current_height, in_progress) ==
    dealing.requested_height < current_height /\ dealing.transcript_id \notin in_progress

should_purge(dealing, current_height, in_progress) ==
    dealing.requested_height <= current_height /\ dealing.transcript_id \notin in_progress

\* Action::action. Process carries the params of the matching requested transcript,
\* which its transcript id stands for.
Process(transcript_params) == [tag |-> "Process", params |-> transcript_params]
Defer == [tag |-> "Defer", params |-> "none"]
Drop == [tag |-> "Drop", params |-> "none"]

\* Action::action looking up the requested transcripts before the height.
action_lookup_first(block_reader, msg_height, msg_transcript_id) ==
    IF \E transcript_params \in block_reader.requested :
            msg_transcript_id = transcript_params
    THEN Process(CHOOSE transcript_params \in block_reader.requested :
                    msg_transcript_id = transcript_params)
    ELSE IF msg_height > block_reader.height THEN Defer ELSE Drop

action(block_reader, msg_height, msg_transcript_id) ==
    IF msg_height > block_reader.height
    THEN Defer
    ELSE IF \E transcript_params \in block_reader.requested :
                msg_transcript_id = transcript_params
         THEN Process(CHOOSE transcript_params \in block_reader.requested :
                        msg_transcript_id = transcript_params)
         ELSE Drop

crypto_load_dependencies(crypto, transcript_params) ==
    transcript_params \notin crypto.load_fail

crypto_create_dealing(crypto, block_reader, transcript_params) ==
    IF ~crypto_load_dependencies(crypto, transcript_params)
    THEN {}
    ELSE IF transcript_params \in crypto.create_fail
         THEN {}
         ELSE {AddToValidated(EcdsaDealing(block_reader.height, transcript_params,
                                           LocalNode))}

\* crypto_verify_dealing taking every error for a permanent one.
crypto_verify_dealing_strict(crypto, id, transcript_params, dealing) ==
    IF dealing \in crypto.public_perm \cup crypto.public_trans
    THEN {HandleInvalid(id)}
    ELSE {MoveToValidated(id)}

crypto_verify_dealing(crypto, id, transcript_params, dealing) ==
    IF dealing \in crypto.public_perm
    THEN {HandleInvalid(id)}
    ELSE IF dealing \in crypto.public_trans
         THEN {}
         ELSE {MoveToValidated(id)}

\* crypto_create_dealing_support taking every error of verify_dealing_private
\* for a permanent one.
crypto_create_dealing_support_strict(crypto, id, transcript_params, dealing) ==
    IF dealing \in crypto.private_perm \cup crypto.private_trans
    THEN {HandleInvalid(id)}
    ELSE IF dealing \in crypto.sign_fail
         THEN {}
         ELSE {AddToValidated(EcdsaDealingSupport(dealing, LocalNode))}

\* crypto_create_dealing_support with the share signed in the name of the dealer.
crypto_create_dealing_support_by_dealer(crypto, id, transcript_params, dealing) ==
    IF dealing \in crypto.private_perm
    THEN {HandleInvalid(id)}
    ELSE IF dealing \in crypto.private_trans
         THEN {}
         ELSE IF dealing \in crypto.sign_fail
              THEN {}
              ELSE {AddToValidated(EcdsaDealingSupport(dealing, dealing.dealer_id))}

crypto_create_dealing_support(crypto, id, transcript_params, dealing) ==
    IF dealing \in crypto.private_perm
    THEN {HandleInvalid(id)}
    ELSE IF dealing \in crypto.private_trans
         THEN {}
         ELSE IF dealing \in crypto.sign_fail
              THEN {}
              ELSE {AddToValidated(EcdsaDealingSupport(dealing, LocalNode))}

crypto_verify_dealing_support(crypto, id, transcript_params, support) ==
    IF support \in crypto.verify_fail
    THEN {HandleInvalid(id)}
    ELSE {MoveToValidated(id)}

----------------------------------------------------------------------------
(* The five passes *)

\* The filter of send_dealings without the look-up of the validated pool.
dealings_to_send_again(ecdsa_pool, block_reader) ==
    {transcript_params \in block_reader.requested :
        LocalNode \in dealers(transcript_params)}

\* The filter of send_dealings: the transcripts to issue a dealing for.
dealings_to_send(ecdsa_pool, block_reader) ==
    {transcript_params \in block_reader.requested :
        /\ LocalNode \in dealers(transcript_params)
        /\ ~has_dealer_issued_dealing(ecdsa_pool, transcript_params, LocalNode)}

send_dealings(crypto, ecdsa_pool, block_reader) ==
    UNION {crypto_create_dealing(crypto, block_reader, transcript_params) :
            transcript_params \in dealings_to_send(ecdsa_pool, block_reader)}

\* Pass 1 of validate_dealings: the keys seen more than once.
duplicate_keys(ecdsa_pool) ==
    {dealing_key(d) : d \in
        {x \in dealings(ecdsa_pool.unvalidated) :
            \E y \in dealings(ecdsa_pool.unvalidated) :
                y # x /\ dealing_key(y) = dealing_key(x)}}

\* validate_dealings without the look-up of the validated pool.
validate_dealing_unchecked(crypto, ecdsa_pool, block_reader, dealing) ==
    IF dealing_key(dealing) \in duplicate_keys(ecdsa_pool)
    THEN {HandleInvalid(dealing)}
    ELSE LET a == action(block_reader, dealing.requested_height, dealing.transcript_id)
         IN  CASE a.tag = "Process" ->
                    IF dealing.dealer_id \notin dealers(a.params)
                    THEN {HandleInvalid(dealing)}
                    ELSE crypto_verify_dealing(crypto, dealing, a.params, dealing)
               [] a.tag = "Drop" -> {RemoveUnvalidated(dealing)}
               [] a.tag = "Defer" -> {}

\* validate_dealings going on with a duplicate after HandleInvalid.
validate_dealing_no_continue(crypto, ecdsa_pool, block_reader, dealing) ==
    (IF dealing_key(dealing) \in duplicate_keys(ecdsa_pool)
     THEN {HandleInvalid(dealing)}
     ELSE {})
    \cup validate_dealing_unchecked(crypto, [ecdsa_pool EXCEPT !.unvalidated = {dealing}],
                                    block_reader, dealing)

validate_dealing(crypto, ecdsa_pool, block_reader, dealing) ==
    IF dealing_key(dealing) \in duplicate_keys(ecdsa_pool)
    THEN {HandleInvalid(dealing)}
    ELSE LET a == action(block_reader, dealing.requested_height, dealing.transcript_id)
         IN  CASE a.tag = "Process" ->
                    IF dealing.dealer_id \notin dealers(a.params)
                    THEN {HandleInvalid(dealing)}
                    ELSE IF has_dealer_issued_dealing(ecdsa_pool, dealing.transcript_id,
                                                       dealing.dealer_id)
                         THEN {HandleInvalid(dealing)}
                         ELSE crypto_verify_dealing(crypto, dealing, a.params, dealing)
               [] a.tag = "Drop" -> {RemoveUnvalidated(dealing)}
               [] a.tag = "Defer" -> {}

validate_dealings(crypto, ecdsa_pool, block_reader) ==
    UNION {validate_dealing(crypto, ecdsa_pool, block_reader, dealing) :
            dealing \in dealings(ecdsa_pool.unvalidated)}

\* The filters of send_dealing_support without the look-up of the supports.
dealings_to_support_again(ecdsa_pool, block_reader) ==
    {dealing \in dealings(ecdsa_pool.validated) :
        /\ dealing.transcript_id \in block_reader.requested
        /\ LocalNode \in receivers(dealing.transcript_id)}

\* The filters of send_dealing_support: the validated dealings to support.
dealings_to_support(ecdsa_pool, block_reader) ==
    {dealing \in dealings(ecdsa_pool.validated) :
        /\ ~has_node_issued_dealing_support(ecdsa_pool, dealing.transcript_id,
                                            dealing.dealer_id, LocalNode)
        /\ dealing.transcript_id \in block_reader.requested
        /\ LocalNode \in receivers(dealing.transcript_id)}

send_dealing_support(crypto, ecdsa_pool, block_reader) ==
    UNION {crypto_create_dealing_support(crypto, dealing, dealing.transcript_id, dealing) :
            dealing \in dealings_to_support(ecdsa_pool, block_reader)}

\* Pass 1 of validate_dealing_support keyed by the dealing alone.
duplicate_supports_of_dealing(ecdsa_pool) ==
    {support_key(s) : s \in
        {x \in dealing_support(ecdsa_pool.unvalidated) :
            \E y \in dealing_support(ecdsa_pool.unvalidated) :
                y # x /\ dealing_key(y) = dealing_key(x)}}

\* Pass 1 of validate_dealing_support: the keys seen more than once.
duplicate_supports(ecdsa_pool) ==
    {support_key(s) : s \in
        {x \in dealing_support(ecdsa_pool.unvalidated) :
            \E y \in dealing_support(ecdsa_pool.unvalidated) :
                y # x /\ support_key(y) = support_key(x)}}

\* valid_dealings collected from both halves of the pool.
valid_dealings_of_any_half(ecdsa_pool) ==
    {dealing_key(d) : d \in dealings(ecdsa_pool.unvalidated \cup ecdsa_pool.validated)}

valid_dealings(ecdsa_pool) ==
    {dealing_key(d) : d \in dealings(ecdsa_pool.validated)}

\* validate_dealing_support looking for the validated dealing before the receivers.
validate_support_dealing_first(crypto, ecdsa_pool, block_reader, support) ==
    IF support_key(support) \in duplicate_supports(ecdsa_pool)
    THEN {HandleInvalid(support)}
    ELSE LET a == action(block_reader, support.requested_height, support.transcript_id)
         IN  CASE a.tag = "Process" ->
                    IF dealing_key(support) \notin valid_dealings(ecdsa_pool)
                    THEN {}
                    ELSE IF support.signer \notin receivers(a.params)
                         THEN {HandleInvalid(support)}
                         ELSE IF has_node_issued_dealing_support(ecdsa_pool,
                                    support.transcript_id, support.dealer_id, support.signer)
                              THEN {HandleInvalid(support)}
                              ELSE crypto_verify_dealing_support(crypto, support, a.params,
                                                                 support)
               [] a.tag = "Drop" -> {RemoveUnvalidated(support)}
               [] a.tag = "Defer" -> {}

validate_support(crypto, ecdsa_pool, block_reader, support) ==
    IF support_key(support) \in duplicate_supports(ecdsa_pool)
    THEN {HandleInvalid(support)}
    ELSE LET a == action(block_reader, support.requested_height, support.transcript_id)
         IN  CASE a.tag = "Process" ->
                    IF support.signer \notin receivers(a.params)
                    THEN {HandleInvalid(support)}
                    ELSE IF dealing_key(support) \notin valid_dealings(ecdsa_pool)
                         THEN {}
                         ELSE IF has_node_issued_dealing_support(ecdsa_pool,
                                    support.transcript_id, support.dealer_id, support.signer)
                              THEN {HandleInvalid(support)}
                              ELSE crypto_verify_dealing_support(crypto, support, a.params,
                                                                 support)
               [] a.tag = "Drop" -> {RemoveUnvalidated(support)}
               [] a.tag = "Defer" -> {}

validate_dealing_support(crypto, ecdsa_pool, block_reader) ==
    UNION {validate_support(crypto, ecdsa_pool, block_reader, support) :
            support \in dealing_support(ecdsa_pool.unvalidated)}

\* purge_artifacts looking at the unvalidated half only.
purge_artifacts_unvalidated(ecdsa_pool, block_reader) ==
    LET in_progress == block_reader.requested
        current_height == block_reader.height
    IN  {RemoveUnvalidated(d) : d \in
            {x \in dealings(ecdsa_pool.unvalidated) :
                should_purge(x, current_height, in_progress)}}
        \cup
        {RemoveUnvalidated(s) : s \in
            {x \in dealing_support(ecdsa_pool.unvalidated) :
                should_purge(content(x), current_height, in_progress)}}

purge_artifacts(ecdsa_pool, block_reader) ==
    LET in_progress == block_reader.requested
        current_height == block_reader.height
    IN  {RemoveUnvalidated(d) : d \in
            {x \in dealings(ecdsa_pool.unvalidated) :
                should_purge(x, current_height, in_progress)}}
        \cup
        {RemoveValidated(d) : d \in
            {x \in dealings(ecdsa_pool.validated) :
                should_purge(x, current_height, in_progress)}}
        \cup
        {RemoveUnvalidated(s) : s \in
            {x \in dealing_support(ecdsa_pool.unvalidated) :
                should_purge(content(x), current_height, in_progress)}}
        \cup
        {RemoveValidated(s) : s \in
            {x \in dealing_support(ecdsa_pool.validated) :
                should_purge(content(x), current_height, in_progress)}}

----------------------------------------------------------------------------
(* on_state_change and the round-robin schedule *)

\* The array `calls` with the two validation passes swapped.
calls_swapped ==
    <<"send_dealings", "validate_dealing_support", "send_dealing_support",
      "validate_dealings", "purge_artifacts">>

\* The array `calls` of on_state_change, in its order.
calls ==
    <<"send_dealings", "validate_dealings", "send_dealing_support",
      "validate_dealing_support", "purge_artifacts">>

Indices == 0..(Len(calls) - 1)

\* The ChangeSets a pass can return on this pool and block, over the outcomes of
\* its crypto calls.
pass_results(pass, ecdsa_pool, block_reader) ==
    CASE pass = "send_dealings" ->
            {send_dealings(c, ecdsa_pool, block_reader) :
                c \in CreateOutcomes(dealings_to_send(ecdsa_pool, block_reader))}
      [] pass = "validate_dealings" ->
            {validate_dealings(c, ecdsa_pool, block_reader) :
                c \in PublicOutcomes(dealings(ecdsa_pool.unvalidated))}
      [] pass = "send_dealing_support" ->
            {send_dealing_support(c, ecdsa_pool, block_reader) :
                c \in PrivateOutcomes(dealings_to_support(ecdsa_pool, block_reader))}
      [] pass = "validate_dealing_support" ->
            {validate_dealing_support(c, ecdsa_pool, block_reader) :
                c \in VerifyOutcomes(dealing_support(ecdsa_pool.unvalidated))}
      [] pass = "purge_artifacts" ->
            {purge_artifacts(ecdsa_pool, block_reader)}

\* RoundRobin::call_next: calls in turn from `index`, stops at the first non-empty
\* result or after a full round, and leaves the cursor after the last call made.
\* Yields every [result, next, ran] the crypto outcomes allow; n calls were made
\* before this one and returned nothing.
RECURSIVE call_loop(_, _, _)
call_loop(index, n, results) ==
    LET result == results[(index + n) % Len(calls)]
        next == (index + n + 1) % Len(calls)
        ran == {(index + j) % Len(calls) : j \in 0..n}
        done == {[result |-> cs, next |-> next, ran |-> ran] : cs \in result \ {{}}}
    IN  IF {} \notin result
        THEN done
        ELSE IF index = next
             THEN done \cup {[result |-> {}, next |-> next, ran |-> ran]}
             ELSE done \cup call_loop(index, n + 1, results)

call_next(index, results) == call_loop(index, 0, results)

\* on_state_change on a schedule that is made anew by every call.
on_state_change_fresh(index, ecdsa_pool, block_reader) ==
    call_next(0, [i \in Indices |-> pass_results(calls[i + 1], ecdsa_pool, block_reader)])

on_state_change(index, ecdsa_pool, block_reader) ==
    call_next(index, [i \in Indices |-> pass_results(calls[i + 1], ecdsa_pool, block_reader)])

\* EcdsaPoolImpl::apply_changes: the whole ChangeSet at once. HandleInvalid removes
\* the artifact from the half that holds it.
apply_changes(ecdsa_pool, change_set) ==
    LET ids(acts) == {e.msg : e \in {x \in change_set : x.act \in acts}}
    IN  [unvalidated |->
            ecdsa_pool.unvalidated
                \ ids({"MoveToValidated", "RemoveUnvalidated", "HandleInvalid"}),
         validated |->
            (ecdsa_pool.validated
                \ (ids({"RemoveValidated"})
                   \cup (ids({"HandleInvalid"}) \ ecdsa_pool.unvalidated)))
            \cup ids({"AddToValidated", "MoveToValidated"})]

----------------------------------------------------------------------------
(* The transcript builder (EcdsaTranscriptBuilderImpl) *)

\* IDkgTranscriptParams::verification_threshold: the supports a dealing needs.
\* Every receiver of the transcript has to support it.
verification_threshold(transcript_params) ==
    Cardinality(receivers(transcript_params))

\* IDkgTranscriptParams::collection_threshold: the dealings a transcript needs.
collection_threshold(transcript_params) ==
    Cardinality(dealers(transcript_params))

\* The outcomes of the crypto calls of get_completed_transcripts: the dealings
\* whose supports fail to aggregate, the transcripts that fail to be created.
NoBuildFailure == [aggregate_fail |-> {}, transcript_fail |-> {}]

BuildOutcomes(D, T) ==
    {[aggregate_fail |-> a, transcript_fail |-> t] : a \in SUBSET D, t \in SUBSET T}

\* Option<MultiSignature<EcdsaDealing>>: the multi signature stands for the
\* signers of the shares it combines.
NoMultiSig == [some |-> FALSE, signers |-> {}]
MultiSignature(support_shares) ==
    [some |-> TRUE, signers |-> {support.signer : support \in support_shares}]

\* The support shares get_completed_transcripts collects for a dealing.
support_shares_of(ecdsa_pool, dealing) ==
    {support \in dealing_support(ecdsa_pool.validated) :
        /\ support.transcript_id = dealing.transcript_id
        /\ support.dealer_id = dealing.dealer_id}

\* crypto_aggregate_dealing_support without the check of the threshold.
crypto_aggregate_dealing_support_unchecked(crypto, transcript_params, dealing, support_shares) ==
    IF dealing \in crypto.aggregate_fail
    THEN NoMultiSig
    ELSE MultiSignature(support_shares)

\* crypto_aggregate_dealing_support, for the shares of the dealing.
crypto_aggregate_dealing_support(crypto, transcript_params, dealing, support_shares) ==
    IF Cardinality(support_shares) < verification_threshold(transcript_params)
    THEN NoMultiSig
    ELSE IF dealing \in crypto.aggregate_fail
         THEN NoMultiSig
         ELSE MultiSignature(support_shares)

\* Step 1 of get_completed_transcripts: TranscriptState.completed_dealings of
\* each requested transcript, dealer_id -> EcdsaVerifiedDealing. A later insert
\* for the same dealer replaces the earlier one; the order is that of the pool.
completed_dealings(crypto, ecdsa_pool, block_reader) ==
    [transcript_params \in block_reader.requested |->
        LET verified ==
                {[content |-> dealing,
                  signature |-> crypto_aggregate_dealing_support(
                                    crypto, transcript_params, dealing,
                                    support_shares_of(ecdsa_pool, dealing))] :
                    dealing \in {x \in dealings(ecdsa_pool.validated) :
                                    x.transcript_id = transcript_params}}
            added == {v \in verified : v.signature.some}
        IN  [dealer_id \in {v.content.dealer_id : v \in added} |->
                CHOOSE v \in added : v.content.dealer_id = dealer_id]]

\* crypto_create_transcript without the check of the threshold.
crypto_create_transcript_unchecked(crypto, transcript_params, verified_dealings) ==
    IF transcript_params \in crypto.transcript_fail
    THEN {}
    ELSE {[transcript_id |-> transcript_params,
           verified_dealings |-> verified_dealings]}

\* crypto_create_transcript: Some(transcript) as a singleton, None as the empty set.
crypto_create_transcript(crypto, transcript_params, verified_dealings) ==
    IF Cardinality(DOMAIN verified_dealings) < collection_threshold(transcript_params)
    THEN {}
    ELSE IF transcript_params \in crypto.transcript_fail
         THEN {}
         ELSE {[transcript_id |-> transcript_params,
                verified_dealings |-> verified_dealings]}

get_completed_transcripts(crypto, ecdsa_pool, block_reader) ==
    LET trancript_state_map == completed_dealings(crypto, ecdsa_pool, block_reader)
    IN  UNION {crypto_create_transcript(crypto, transcript_params,
                                        trancript_state_map[transcript_params]) :
                transcript_params \in block_reader.requested}

----------------------------------------------------------------------------
(* The payload builder (rs/consensus/src/consensus/payload_builder.rs).

   A payload stands for its own hash. Byte counts are scaled down: an ingress
   message counts one byte. An XNetPayload carries two sizes, the one of
   count_bytes() and the canonical one that validate_xnet_payload returns. *)

\* messages::MAX_XNET_PAYLOAD_IN_BYTES, scaled down.
MAX_XNET_PAYLOAD_IN_BYTES == 2
\* The two sizes of a subnet record are 1 or MaxRecordBytes.
MaxRecordBytes == 3
\* The two sizes of the stream slice the XNet builder holds are 1 or MaxXNetBytes.
MaxXNetBytes == 3
\* past_payloads holds at most MaxPast ancestors.
MaxPast == 2

PayloadHeights == {1, 2}
Times == {1}
RegistryVersions == {1}
\* IngressMessageId of the messages of the ingress pool, in the selector's order.
Messages == {1}

NoRecord == [max_block_payload_size |-> 0, max_ingress_bytes_per_message |-> 0]
SubnetRecords ==
    [max_block_payload_size : {1, MaxRecordBytes},
     max_ingress_bytes_per_message : {1, MaxRecordBytes}]
\* The results of RegistryClient::get_subnet_record: Err(_), Ok(None), Ok(Some(_)).
SubnetLookups ==
    {[tag |-> "Err", record |-> NoRecord], [tag |-> "None", record |-> NoRecord]}
    \cup {[tag |-> "Some", record |-> r] : r \in SubnetRecords}

XNetPayload(count, size, valid) == [count_bytes |-> count, size |-> size, valid |-> valid]
EmptyXNet == XNetPayload(0, 0, TRUE)
XNetStreams == {XNetPayload(c, s, TRUE) : c \in {1, MaxXNetBytes}, s \in {1, MaxXNetBytes}}
SelfValidatingPayload(count, valid) == [count_bytes |-> count, valid |-> valid]
BatchPayload(ingress, xnet, self_validating) ==
    [ingress |-> ingress, xnet |-> xnet, self_validating |-> self_validating]
EmptyBatch == BatchPayload({}, EmptyXNet, SelfValidatingPayload(0, TRUE))

\* BlockPayload::Summary and BlockPayload::Data
Summary == [is_summary |-> TRUE, batch |-> EmptyBatch]
Data(batch) == [is_summary |-> FALSE, batch |-> batch]

ValidationContexts ==
    [registry_version : RegistryVersions, certified_height : {0}, time : Times]

\* CountBytes of the sub-payloads and IngressPayload::message_ids
count_bytes_ingress(ingress) == Cardinality(ingress)
count_bytes_xnet(xnet) == xnet.count_bytes
message_ids(ingress) == ingress
\* Payload::get_hash
get_hash(payload) == <<"CryptoHashOf", payload>>

\* u64::saturating_sub
saturating_sub(a, b) == IF a > b THEN a - b ELSE 0

\* IngressSets::new, IngressSets::contains, IngressSets::get_expiry_lower_bound
IngressSets(hash_sets, min_block_time) ==
    [hash_sets |-> hash_sets, min_block_time |-> min_block_time]
contains(ingress_sets, msg_id) ==
    \E i \in 1..Len(ingress_sets.hash_sets) : msg_id \in ingress_sets.hash_sets[i]
get_expiry_lower_bound(ingress_sets) == ingress_sets.min_block_time

(* The selectors behind the builder. They are deterministic; in mode "fitting"
   they return data within the byte limit, in mode "fake" they return what they
   hold whatever the limit, as the selectors of the builder's tests do. *)

\* IngressSelector::get_ingress_payload: the messages of the pool that no
\* ancestor holds, in order, as many as the limit allows.
get_ingress_payload(mode, ingress_pool, ingress_query, context, byte_limit) ==
    LET fresh == {m \in ingress_pool : ~contains(ingress_query, m)}
    IN  IF mode = "fake" THEN fresh
        ELSE {m \in fresh : Cardinality({n \in fresh : n <= m}) <= byte_limit}

\* IngressSelector::validate_ingress_payload: no message of an ancestor again.
validate_ingress_payload(ingress, ingress_query, context) ==
    \A m \in ingress : ~contains(ingress_query, m)

\* XNetPayloadBuilder::get_xnet_payload: the slice held, if both its sizes are
\* within the limit.
get_xnet_payload(mode, stream, context, past_xnet, byte_limit) ==
    IF mode = "fake" \/ (stream.count_bytes <= byte_limit /\ stream.size <= byte_limit)
    THEN stream
    ELSE EmptyXNet

\* XNetPayloadBuilder::validate_xnet_payload: the canonical size, or an error.
validate_xnet_payload(xnet, context, past_xnet) ==
    [ok |-> xnet.valid, size |-> xnet.size]

\* SelfValidatingPayloadBuilder::get_self_validating_payload
get_self_validating_payload(context, past_self_validating, byte_limit) ==
    SelfValidatingPayload(byte_limit, TRUE)

\* SelfValidatingPayloadBuilder::validate_self_validating_payload
validate_self_validating_payload(self_validating, context, past_self_validating) ==
    self_validating.valid

\* The record of one call of a selector by get_payload.
SelectorCall(selector, byte_limit, count, size) ==
    [selector |-> selector, byte_limit |-> byte_limit, count_bytes |-> count, size |-> size]

(* Results *)

\* Result<BatchPayload, PayloadBuilderError>
BuiltOk(batch) == [ok |-> TRUE, error |-> "none", batch |-> batch]
BuiltErr(error) == [ok |-> FALSE, error |-> error, batch |-> EmptyBatch]

\* ValidationResult<PayloadValidationError>
Ok == [tag |-> "Ok", error |-> "none", expected |-> 0, received |-> 0]
Transient(error) == [tag |-> "Transient", error |-> error, expected |-> 0, received |-> 0]
Permanent(error) == [tag |-> "Permanent", error |-> error, expected |-> 0, received |-> 0]
PayloadTooBig(expected, received) ==
    [tag |-> "Permanent", error |-> "PayloadTooBig",
     expected |-> expected, received |-> received]

(* PayloadBuilderImpl *)

\* get_max_block_payload_size_bytes without the size of an ingress message.
get_max_block_payload_size_bytes_of_xnet(context) ==
    LET lookup == registry[context.registry_version]
    IN  IF lookup.tag \in {"Err", "None"}
        THEN [ok |-> FALSE, error |-> "RegistryUnavailable", value |-> 0]
        ELSE [ok |-> TRUE, error |-> "none",
              value |-> IF lookup.record.max_block_payload_size < MAX_XNET_PAYLOAD_IN_BYTES
                        THEN MAX_XNET_PAYLOAD_IN_BYTES
                        ELSE lookup.record.max_block_payload_size]

\* PayloadBuilderImpl::get_max_block_payload_size_bytes
get_max_block_payload_size_bytes(context) ==
    LET lookup == registry[context.registry_version]
    IN  IF lookup.tag \in {"Err", "None"}
        THEN [ok |-> FALSE, error |-> "RegistryUnavailable", value |-> 0]
        ELSE LET subnet_record == lookup.record
                 required_min_size ==
                    IF MAX_XNET_PAYLOAD_IN_BYTES >= subnet_record.max_ingress_bytes_per_message
                    THEN MAX_XNET_PAYLOAD_IN_BYTES
                    ELSE subnet_record.max_ingress_bytes_per_message
             IN  [ok |-> TRUE, error |-> "none",
                  value |-> IF subnet_record.max_block_payload_size < required_min_size
                            THEN required_min_size
                            ELSE subnet_record.max_block_payload_size]

\* The key of the IngressPayloadCache with the height alone.
cache_key_of_height(height, payload) == <<height, get_hash(Summary)>>

\* The key of the IngressPayloadCache: (height, payload.get_hash())
cache_key(height, payload) == <<height, get_hash(payload)>>

\* The data payloads of past_payloads, in their order.
data_payloads(past_payloads) == SelectSeq(past_payloads, LAMBDA p : ~p[3].is_summary)

\* The id set put into the cache, left empty.
new_entry_unread(batch) == {}

\* Arc::new(batch.ingress.message_ids().into_iter().collect())
new_entry(batch) == message_ids(batch.ingress)

\* past_ingress of split_past_payloads, from the i-th ancestor on: the id set of
\* each data payload, taken from the cache and put there when it is missing.
RECURSIVE past_ingress_from(_, _, _)
past_ingress_from(cache, past_payloads, i) ==
    IF i > Len(past_payloads) THEN [cache |-> cache, past_ingress |-> <<>>]
    ELSE LET height == past_payloads[i][1]
             payload == past_payloads[i][3]
         IN  IF payload.is_summary THEN past_ingress_from(cache, past_payloads, i + 1)
             ELSE LET key == cache_key(height, payload)
                      entry == IF key \in DOMAIN cache THEN cache
                               ELSE cache @@ (key :> new_entry(payload.batch))
                      rest == past_ingress_from(entry, past_payloads, i + 1)
                  IN  [cache |-> rest.cache,
                       past_ingress |-> <<entry[key]>> \o rest.past_ingress]

\* The garbage collection that drops nothing.
garbage_never(key, min_height) == FALSE

\* The garbage collection that drops the entries of the lowest ancestor too.
garbage_at_lowest(key, min_height) == key[1] <= min_height

\* key.0 < *min_height
garbage(key, min_height) == key[1] < min_height

\* split_past_payloads, with the cache it leaves.
split_past_payloads(cache, past_payloads) ==
    LET filled == past_ingress_from(cache, past_payloads, 1)
        data == data_payloads(past_payloads)
        keys == IF past_payloads = <<>> THEN DOMAIN filled.cache
                ELSE LET min_height == past_payloads[Len(past_payloads)][1]
                     IN  {key \in DOMAIN filled.cache : ~garbage(key, min_height)}
    IN  [ingress_payload_cache |-> [key \in keys |-> filled.cache[key]],
         past_ingress |-> filled.past_ingress,
         past_xnet |-> [i \in 1..Len(data) |-> data[i][3].batch.xnet],
         past_self_validating |-> [i \in 1..Len(data) |-> data[i][3].batch.self_validating]]

\* min_block_time of get_payload and validate_payload
min_block_time_of(past_payloads, context) ==
    IF past_payloads = <<>> THEN context.time
    ELSE past_payloads[Len(past_payloads)][2]

\* The xnet payload is built before the ingress payload at every height.
xnet_first_always(height) == TRUE

\* height.get() % 2 == 0
xnet_first(height) == height % 2 = 0

\* PayloadBuilderImpl::get_payload: the cache it leaves, its result, and the
\* calls of the selectors in their order.
get_payload(cache, height, ingress_pool, past_payloads, context) ==
    LET min_block_time == min_block_time_of(past_payloads, context)
        split == split_past_payloads(cache, past_payloads)
        ingress_query == IngressSets(split.past_ingress, min_block_time)
        budget == get_max_block_payload_size_bytes(context)
        max_block_payload_size == budget.value
        ingress_of(byte_limit) ==
            get_ingress_payload(selectors, ingress_pool, ingress_query, context, byte_limit)
        xnet_of(byte_limit) ==
            get_xnet_payload(selectors, xnet_stream, context, split.past_xnet, byte_limit)
        xnet_limit ==
            IF xnet_first(height) THEN max_block_payload_size
            ELSE saturating_sub(max_block_payload_size,
                                count_bytes_ingress(ingress_of(max_block_payload_size)))
        xnet == xnet_of(xnet_limit)
        ingress_limit ==
            IF xnet_first(height)
            THEN saturating_sub(max_block_payload_size, count_bytes_xnet(xnet))
            ELSE max_block_payload_size
        ingress == ingress_of(ingress_limit)
        self_validating ==
            get_self_validating_payload(context, split.past_self_validating,
                                        MAX_XNET_PAYLOAD_IN_BYTES)
        xnet_call ==
            SelectorCall("xnet", xnet_limit, count_bytes_xnet(xnet), xnet.size)
        ingress_call ==
            SelectorCall("ingress", ingress_limit, count_bytes_ingress(ingress),
                         count_bytes_ingress(ingress))
        self_validating_call ==
            SelectorCall("self_validating", MAX_XNET_PAYLOAD_IN_BYTES,
                         self_validating.count_bytes, self_validating.count_bytes)
    IN  IF ~budget.ok
        THEN [ingress_payload_cache |-> split.ingress_payload_cache,
              result |-> BuiltErr(budget.error),
              ingress_query |-> ingress_query,
              calls |-> <<>>]
        ELSE [ingress_payload_cache |-> split.ingress_payload_cache,
              result |-> BuiltOk(BatchPayload(ingress, xnet, self_validating)),
              ingress_query |-> ingress_query,
              calls |-> IF xnet_first(height)
                        THEN <<xnet_call, ingress_call, self_validating_call>>
                        ELSE <<ingress_call, xnet_call, self_validating_call>>]

\* The size validate_payload compares with the limit, with count_bytes() of the
\* xnet payload.
checked_size_counted(xnet_size, batch_payload) ==
    count_bytes_xnet(batch_payload.xnet) + count_bytes_ingress(batch_payload.ingress)

\* The size with the bytes of the self-validating payload added.
checked_size_with_self_validating(xnet_size, batch_payload) ==
    xnet_size + count_bytes_ingress(batch_payload.ingress)
    + batch_payload.self_validating.count_bytes

\* xnet_size + NumBytes::from(batch_payload.ingress.count_bytes() as u64)
checked_size(xnet_size, batch_payload) ==
    xnet_size + count_bytes_ingress(batch_payload.ingress)

\* The checks of validate_payload with the xnet validator called first.
checks_xnet_first(budget, ingress_ok, xnet_size, self_validating_ok, batch_payload) ==
    LET max_block_payload_size == budget.value
        received == checked_size(xnet_size.size, batch_payload)
    IN  IF ~budget.ok
        THEN [result |-> Transient("RegistryUnavailable"), calls |-> <<>>]
        ELSE IF ~xnet_size.ok
        THEN [result |-> Permanent("InvalidXNetPayload"), calls |-> <<"xnet">>]
        ELSE IF ~ingress_ok
        THEN [result |-> Permanent("InvalidIngressPayload"), calls |-> <<"xnet", "ingress">>]
        ELSE IF received > max_block_payload_size
        THEN [result |-> PayloadTooBig(max_block_payload_size, received),
              calls |-> <<"xnet", "ingress">>]
        ELSE IF ~self_validating_ok
        THEN [result |-> Permanent("InvalidSelfValidatingPayload"),
              calls |-> <<"xnet", "ingress", "self_validating">>]
        ELSE [result |-> Ok, calls |-> <<"xnet", "ingress", "self_validating">>]

\* The checks of validate_payload on a data payload after the split, each one
\* returning early: the budget, the ingress selector, the xnet validator, the
\* size, the self-validating validator; with the validators called, in order.
checks(budget, ingress_ok, xnet_size, self_validating_ok, batch_payload) ==
    LET max_block_payload_size == budget.value
        received == checked_size(xnet_size.size, batch_payload)
    IN  IF ~budget.ok
        THEN [result |-> Transient("RegistryUnavailable"), calls |-> <<>>]
        ELSE IF ~ingress_ok
        THEN [result |-> Permanent("InvalidIngressPayload"), calls |-> <<"ingress">>]
        ELSE IF ~xnet_size.ok
        THEN [result |-> Permanent("InvalidXNetPayload"), calls |-> <<"ingress", "xnet">>]
        ELSE IF received > max_block_payload_size
        THEN [result |-> PayloadTooBig(max_block_payload_size, received),
              calls |-> <<"ingress", "xnet">>]
        ELSE IF ~self_validating_ok
        THEN [result |-> Permanent("InvalidSelfValidatingPayload"),
              calls |-> <<"ingress", "xnet", "self_validating">>]
        ELSE [result |-> Ok, calls |-> <<"ingress", "xnet", "self_validating">>]

\* validate_payload with the summary payload told apart after the split and
\* the budget.
validate_payload_summary_late(cache, payload, past_payloads, context) ==
    LET min_block_time == min_block_time_of(past_payloads, context)
        split == split_past_payloads(cache, past_payloads)
        ingress_query == IngressSets(split.past_ingress, min_block_time)
        budget == get_max_block_payload_size_bytes(context)
        batch_payload == payload.batch
        checked ==
            IF ~budget.ok THEN checks(budget, TRUE, [ok |-> TRUE, size |-> 0], TRUE, EmptyBatch)
            ELSE IF payload.is_summary THEN [result |-> Ok, calls |-> <<>>]
            ELSE checks(budget,
                        validate_ingress_payload(batch_payload.ingress, ingress_query, context),
                        validate_xnet_payload(batch_payload.xnet, context, split.past_xnet),
                        validate_self_validating_payload(
                            batch_payload.self_validating, context,
                            split.past_self_validating),
                        batch_payload)
    IN  [ingress_payload_cache |-> split.ingress_payload_cache,
         result |-> checked.result,
         ingress_query |-> ingress_query,
         calls |-> checked.calls]

\* PayloadBuilderImpl::validate_payload: the cache it leaves, its result, and the
\* validators it called, in their order.
validate_payload(cache, payload, past_payloads, context) ==
    IF payload.is_summary
    THEN [ingress_payload_cache |-> cache, result |-> Ok,
          ingress_query |-> IngressSets(<<>>, min_block_time_of(past_payloads, context)),
          calls |-> <<>>]
    ELSE
    LET batch_payload == payload.batch
        min_block_time == min_block_time_of(past_payloads, context)
        split == split_past_payloads(cache, past_payloads)
        ingress_query == IngressSets(split.past_ingress, min_block_time)
        checked ==
            checks(get_max_block_payload_size_bytes(context),
                   validate_ingress_payload(batch_payload.ingress, ingress_query, context),
                   validate_xnet_payload(batch_payload.xnet, context, split.past_xnet),
                   validate_self_validating_payload(
                       batch_payload.self_validating, context, split.past_self_validating),
                   batch_payload)
    IN  [ingress_payload_cache |-> split.ingress_payload_cache,
         result |-> checked.result,
         ingress_query |-> ingress_query,
         calls |-> checked.calls]

\* No call of the payload builder yet.
NoPayloadCall == [op |-> "none"]

\* The payload builder at rest.
\* Nothing encoded or decoded yet.
NoConversion == [op |-> "none"]

\* The threads that call the payload builder.
Threads == {"thread_1", "thread_2"}
NoThread == "none"
Idle == [pc |-> "idle"]

\* The write guard is with nobody and no thread is in a call.
NoThreadCalls ==
    /\ rwlock = NoThread
    /\ thread = [t \in Threads |-> Idle]

PayloadBuilderIdle ==
    /\ ingress_payload_cache = [key \in {} |-> {}]
    /\ registry = [version \in RegistryVersions |-> [tag |-> "None", record |-> NoRecord]]
    /\ xnet_stream = XNetPayload(1, 1, TRUE)
    /\ selectors = "fitting"
    /\ pb = NoPayloadCall
    /\ NoThreadCalls
    /\ conversion = NoConversion

----------------------------------------------------------------------------
(* State machine of the pre-signer and its pool *)

Blocks == [height : Heights, requested : SUBSET TranscriptIds]

NoCall == [op |-> "none", result |-> {}]

Init ==
    /\ unvalidated = {}
    /\ validated = {}
    /\ block \in {b \in Blocks : b.height = 1}
    /\ schedule = 0
    /\ age = [i \in Indices |-> 0]
    /\ last = NoCall
    /\ removed = {}
    /\ consensus_crypto = NoFailure
    /\ PayloadBuilderIdle

\* MutableEcdsaPool::insert: gossip hands over a received artifact that neither
\* half of the pool holds, while the pool holds fewer than max artifacts.
insert(max) ==
    /\ Cardinality(unvalidated \cup validated) < max
    /\ \E msg \in Artifacts \ (unvalidated \cup validated) :
        unvalidated' = unvalidated \cup {msg}
    /\ last' = NoCall
    /\ UNCHANGED <<validated, block, schedule, age, removed, consensus_crypto>>
    /\ UNCHANGED payload_vars

Insert == insert(MaxPool)

\* Consensus finalizes a block: the height grows, the requested transcripts change.
Finalize ==
    /\ block.height < MaxHeight
    /\ \E requested \in SUBSET TranscriptIds :
        block' = [height |-> block.height + 1, requested |-> requested]
    /\ last' = NoCall
    /\ UNCHANGED <<unvalidated, validated, schedule, age, removed, consensus_crypto>>
    /\ UNCHANGED payload_vars

\* The calls in a row, up to Len(calls), that did not run each pass.
aged(ran) ==
    [i \in Indices |->
        IF i \in ran THEN 0 ELSE IF age[i] < Len(calls) THEN age[i] + 1 ELSE age[i]]

\* The artifacts a ChangeSet removes.
removals(change_set) ==
    {e.msg : e \in {x \in change_set :
                        x.act \in {"RemoveUnvalidated", "RemoveValidated", "HandleInvalid"}}}

\* One on_state_change call and the application of its ChangeSet to the pool;
\* the calls are counted, and the removed artifacts recorded, where asked.
pool_change(counted, recorded) ==
    \E r \in on_state_change(schedule, EcdsaPool, block) :
        LET pool == apply_changes(EcdsaPool, r.result)
        IN  /\ unvalidated' = pool.unvalidated
            /\ validated' = pool.validated
            /\ schedule' = r.next
            /\ age' = IF counted THEN aged(r.ran) ELSE age
            /\ last' = [op |-> "on_state_change", result |-> r.result]
            /\ removed' = IF recorded THEN removed \cup removals(r.result) ELSE removed
            /\ UNCHANGED <<block, consensus_crypto>>
            /\ UNCHANGED payload_vars

state_change(counted) == pool_change(counted, FALSE)

OnStateChange == state_change(FALSE)

\* The block maker asks the transcript builder for the completed transcripts.
GetCompletedTranscripts ==
    /\ \E crypto \in BuildOutcomes(dealings(validated), block.requested) :
        last' = [op |-> "get_completed_transcripts",
                 result |-> get_completed_transcripts(crypto, EcdsaPool, block)]
    /\ UNCHANGED <<unvalidated, validated, block, schedule, age, removed, consensus_crypto>>
    /\ UNCHANGED payload_vars

Next == Insert \/ Finalize \/ OnStateChange \/ GetCompletedTranscripts

Spec == Init /\ [][Next]_vars

----------------------------------------------------------------------------
(* The schedule alone: one finalized block that requests every transcript, a
   pool of at most MaxCountedPool gossiped artifacts, and on_state_change called
   again and again; age counts the calls that left each pass out. *)

InitSchedule ==
    /\ unvalidated = {}
    /\ validated = {}
    /\ block = [height |-> 1, requested |-> TranscriptIds]
    /\ schedule = 0
    /\ age = [i \in Indices |-> 0]
    /\ last = NoCall
    /\ removed = {}
    /\ consensus_crypto = NoFailure
    /\ PayloadBuilderIdle

InsertCounted == insert(MaxCountedPool)

OnStateChangeCounted == state_change(TRUE)

NextSchedule == InsertCounted \/ OnStateChangeCounted

SpecSchedule ==
    InitSchedule /\ [][NextSchedule]_vars /\ WF_vars(OnStateChangeCounted)

----------------------------------------------------------------------------
(* The batches: a finalized block at the top height, with any set of requested
   transcripts, and a pool of at most MaxBatch gossiped artifacts, so that the
   unvalidated half can hold two artifacts of one key next to a third one. *)

InitBatch ==
    /\ unvalidated = {}
    /\ validated = {}
    /\ block \in {b \in Blocks : b.height = MaxHeight}
    /\ schedule = 0
    /\ age = [i \in Indices |-> 0]
    /\ last = NoCall
    /\ removed = {}
    /\ consensus_crypto = NoFailure
    /\ PayloadBuilderIdle

InsertBatch == insert(MaxBatch)

NextBatch == InsertBatch \/ OnStateChange

SpecBatch == InitBatch /\ [][NextBatch]_vars

\* The same on the one block that requests every transcript, with
\* on_state_change called again and again.
InitFollow ==
    /\ InitBatch
    /\ block.requested = TranscriptIds

SpecFollow == InitFollow /\ [][NextBatch]_vars /\ WF_vars(OnStateChange)

----------------------------------------------------------------------------
(* The lifecycle: the pool and the blocks of Spec, with the artifacts that the
   ChangeSets have removed on record; gossip stops once MaxRemoved artifacts
   have been removed. *)

InsertRecorded ==
    /\ Cardinality(removed) < MaxRemoved
    /\ insert(MaxPool)

OnStateChangeRecorded == pool_change(FALSE, TRUE)

NextLifecycle == InsertRecorded \/ Finalize \/ OnStateChangeRecorded

SpecLifecycle == Init /\ [][NextLifecycle]_vars

----------------------------------------------------------------------------
(* Quiescence: one finalized block, which may also request id_3, a pool of at
   most MaxQuietPool artifacts that gossip has handed over before, no gossip
   any more, and a crypto component whose outcome on each input is the same in
   every call; on_state_change is called again and again. *)

MaxQuietPool == 1

\* The pass on this pool and block with the crypto component `crypto`.
pass_with(crypto, pass, ecdsa_pool, block_reader) ==
    CASE pass = "send_dealings" -> send_dealings(crypto, ecdsa_pool, block_reader)
      [] pass = "validate_dealings" -> validate_dealings(crypto, ecdsa_pool, block_reader)
      [] pass = "send_dealing_support" -> send_dealing_support(crypto, ecdsa_pool, block_reader)
      [] pass = "validate_dealing_support" ->
            validate_dealing_support(crypto, ecdsa_pool, block_reader)
      [] pass = "purge_artifacts" -> purge_artifacts(ecdsa_pool, block_reader)

\* on_state_change with the crypto component `crypto`.
on_state_change_with(crypto, index, ecdsa_pool, block_reader) ==
    call_next(index,
              [i \in Indices |-> {pass_with(crypto, calls[i + 1], ecdsa_pool, block_reader)}])

\* The blocks at height 1 over the three transcripts.
QuietBlocks == [height : {1}, requested : SUBSET (TranscriptIds \cup {"id_3"})]

\* The dealings the local node issues for the block.
local_dealings(block_reader) ==
    {EcdsaDealing(block_reader.height, transcript_params, LocalNode) :
        transcript_params \in {t \in block_reader.requested : LocalNode \in dealers(t)}}

\* The crypto components: one outcome for every transcript, dealing and support
\* that the passes can hand over.
DeterministicCrypto(gossiped, block_reader) ==
    LET D == dealings(gossiped) \cup local_dealings(block_reader)
    IN  {[NoFailure EXCEPT !.create_fail = create.create_fail,
                           !.public_perm = public.public_perm,
                           !.public_trans = public.public_trans,
                           !.private_perm = private.private_perm,
                           !.private_trans = private.private_trans,
                           !.sign_fail = private.sign_fail,
                           !.verify_fail = verify.verify_fail] :
            create \in {c \in CreateOutcomes(block_reader.requested) : c.load_fail = {}},
            public \in PublicOutcomes(dealings(gossiped)),
            private \in PrivateOutcomes(D),
            verify \in VerifyOutcomes(dealing_support(gossiped))}

InitQuiescence ==
    /\ unvalidated \in {pool \in SUBSET Artifacts : Cardinality(pool) <= MaxQuietPool}
    /\ validated = {}
    /\ block \in QuietBlocks
    /\ schedule = 0
    /\ age = [i \in Indices |-> 0]
    /\ last = NoCall
    /\ removed = {}
    /\ consensus_crypto \in DeterministicCrypto(unvalidated, block)
    /\ PayloadBuilderIdle

\* One on_state_change call with the crypto component and the application of
\* its ChangeSet.
OnStateChangeQuiet ==
    /\ \E r \in on_state_change_with(consensus_crypto, schedule, EcdsaPool, block) :
        LET pool == apply_changes(EcdsaPool, r.result)
        IN  /\ unvalidated' = pool.unvalidated
            /\ validated' = pool.validated
            /\ schedule' = r.next
            /\ last' = [op |-> "on_state_change", result |-> r.result]
            /\ removed' = removed \cup removals(r.result)
    /\ UNCHANGED <<block, age, consensus_crypto>>
    /\ UNCHANGED payload_vars

NextQuiescence == OnStateChangeQuiet

SpecQuiescence ==
    InitQuiescence /\ [][NextQuiescence]_vars /\ WF_vars(OnStateChangeQuiet)

----------------------------------------------------------------------------
(* The purge: the pool, the gossip and the blocks of Spec, with on_state_change
   called again and again. *)

NextPurge == Insert \/ Finalize \/ OnStateChange

SpecPurge == Init /\ [][NextPurge]_vars /\ WF_vars(OnStateChange)

----------------------------------------------------------------------------
(* The ChangeSets: the batches on a finalized block that also requests id_3,
   so that the local node can issue two dealings in one call. *)

InitChangeSets ==
    /\ unvalidated = {}
    /\ validated = {}
    /\ block \in [height : {MaxHeight},
                   requested : {ids \cup {"id_3"} : ids \in SUBSET TranscriptIds}]
    /\ schedule = 0
    /\ age = [i \in Indices |-> 0]
    /\ last = NoCall
    /\ removed = {}
    /\ consensus_crypto = NoFailure
    /\ PayloadBuilderIdle

NextChangeSets == InsertBatch \/ OnStateChange

SpecChangeSets == InitChangeSets /\ [][NextChangeSets]_vars

----------------------------------------------------------------------------
(* State machine of the payload builder: the registry, the stream slice of
   the XNet builder and the mode of the selectors are fixed at the start;
   consensus calls get_payload and validate_payload in any order. SpecPayload
   starts with a subnet record in the registry and any slice and selectors,
   SpecBudget with any result of the registry lookup. *)

\* The payloads of the ancestors.
PastPayloads ==
    {Summary}
    \cup {Data(BatchPayload(ingress, EmptyXNet, SelfValidatingPayload(0, TRUE))) :
            ingress \in SUBSET Messages}

\* past_payloads: (height, time, payload) of at most MaxPast ancestors, in
\* descending height order.
PastPayloadSeqs ==
    {past \in UNION {[1..n -> PayloadHeights \X Times \X PastPayloads] : n \in 0..MaxPast} :
        \A i \in 1..(Len(past) - 1) : past[i][1] > past[i + 1][1]}

\* The payloads a block maker may propose.
ProposedPayloads ==
    {Summary}
    \cup {Data(BatchPayload(ingress, xnet, SelfValidatingPayload(MAX_XNET_PAYLOAD_IN_BYTES, valid))) :
            ingress \in SUBSET Messages,
            xnet \in {EmptyXNet, xnet_stream, [xnet_stream EXCEPT !.valid = FALSE]},
            valid \in BOOLEAN}

EmptyCache == [key \in {} |-> {}]

InitPayload ==
    /\ unvalidated = {}
    /\ validated = {}
    /\ block = [height |-> 1, requested |-> {}]
    /\ schedule = 0
    /\ age = [i \in Indices |-> 0]
    /\ last = NoCall
    /\ removed = {}
    /\ consensus_crypto = NoFailure
    /\ ingress_payload_cache = EmptyCache
    /\ registry \in [RegistryVersions ->
                        {lookup \in SubnetLookups :
                            /\ lookup.tag = "Some"
                            /\ lookup.record.max_ingress_bytes_per_message = 1}]
    /\ xnet_stream \in XNetStreams
    /\ selectors \in {"fitting", "fake"}
    /\ pb = NoPayloadCall
    /\ NoThreadCalls
    /\ conversion = NoConversion

\* The keys of the data payloads of past_payloads that the cache holds.
cached_keys(cache, past_payloads) ==
    {cache_key(p[1], p[3]) : p \in {past_payloads[i] : i \in 1..Len(past_payloads)}}
    \cap DOMAIN cache

\* A block maker builds the payload of a block.
GetPayload ==
    \E height \in PayloadHeights, ingress_pool \in SUBSET Messages,
       past_payloads \in PastPayloadSeqs, context \in ValidationContexts :
        LET r == get_payload(ingress_payload_cache, height, ingress_pool,
                             past_payloads, context)
        IN  /\ ingress_payload_cache' = r.ingress_payload_cache
            /\ pb' = [op |-> "get_payload",
                      result |-> r.result,
                      calls |-> r.calls,
                      cached |-> cached_keys(ingress_payload_cache, past_payloads) # {}]
            /\ UNCHANGED <<registry, xnet_stream, selectors, conversion>>
            /\ UNCHANGED lock_vars
            /\ UNCHANGED ecdsa_vars

\* A validator checks the payload of a proposed block.
ValidatePayload ==
    \E payload \in ProposedPayloads, past_payloads \in PastPayloadSeqs,
       context \in ValidationContexts :
        LET r == validate_payload(ingress_payload_cache, payload, past_payloads, context)
        IN  /\ ingress_payload_cache' = r.ingress_payload_cache
            /\ pb' = [op |-> "validate_payload",
                      result |-> r.result,
                      calls |-> r.calls,
                      cached |-> cached_keys(ingress_payload_cache, past_payloads) # {}]
            /\ UNCHANGED <<registry, xnet_stream, selectors, conversion>>
            /\ UNCHANGED lock_vars
            /\ UNCHANGED ecdsa_vars

NextPayload == GetPayload \/ ValidatePayload

SpecPayload == InitPayload /\ [][NextPayload]_vars

InitBudget ==
    /\ unvalidated = {}
    /\ validated = {}
    /\ block = [height |-> 1, requested |-> {}]
    /\ schedule = 0
    /\ age = [i \in Indices |-> 0]
    /\ last = NoCall
    /\ removed = {}
    /\ consensus_crypto = NoFailure
    /\ ingress_payload_cache = EmptyCache
    /\ registry \in [RegistryVersions -> SubnetLookups]
    /\ xnet_stream = XNetPayload(1, 1, TRUE)
    /\ selectors = "fitting"
    /\ pb = NoPayloadCall
    /\ NoThreadCalls
    /\ conversion = NoConversion

SpecBudget == InitBudget /\ [][NextPayload]_vars

----------------------------------------------------------------------------
(* The cache alone: one subnet record, one stream slice and selectors that keep
   to the limit; the ancestors carry any block time, and the last call is on
   record with what it was given and what it did to the cache. *)

BlockTimes == {1, 2}

\* past_payloads with any block times, in descending height order.
TimedPastPayloadSeqs ==
    {past \in UNION {[1..n -> PayloadHeights \X BlockTimes \X PastPayloads] : n \in 0..MaxPast} :
        \A i \in 1..(Len(past) - 1) : past[i][1] > past[i + 1][1]}

TimedContexts ==
    [registry_version : RegistryVersions, certified_height : {0}, time : BlockTimes]

InitCache ==
    /\ unvalidated = {}
    /\ validated = {}
    /\ block = [height |-> 1, requested |-> {}]
    /\ schedule = 0
    /\ age = [i \in Indices |-> 0]
    /\ last = NoCall
    /\ removed = {}
    /\ consensus_crypto = NoFailure
    /\ ingress_payload_cache = EmptyCache
    /\ registry = [version \in RegistryVersions |->
                    [tag |-> "Some",
                     record |-> [max_block_payload_size |-> MaxRecordBytes,
                                 max_ingress_bytes_per_message |-> 1]]]
    /\ xnet_stream = XNetPayload(1, 1, TRUE)
    /\ selectors = "fitting"
    /\ pb = NoPayloadCall
    /\ NoThreadCalls
    /\ conversion = NoConversion

\* The block times of past_payloads.
block_times(past_payloads) == {past_payloads[i][2] : i \in 1..Len(past_payloads)}

\* The least of a set of times.
earliest(times) == CHOOSE t \in times : \A u \in times : t <= u

\* The record of a call: its result, the expiry lower bound it gave the ingress
\* selector, the ancestors it was given and what it found in and dropped from
\* the cache.
seen_call(op, r, past_payloads, context) ==
    [op |-> op,
     result |-> r.result,
     calls |-> r.calls,
     cached |-> cached_keys(ingress_payload_cache, past_payloads) # {},
     expiry |-> get_expiry_lower_bound(r.ingress_query),
     ancestors |-> Len(past_payloads),
     earliest |-> IF past_payloads = <<>> THEN context.time
                  ELSE earliest(block_times(past_payloads)),
     evicted |-> ~(DOMAIN ingress_payload_cache \subseteq DOMAIN r.ingress_payload_cache)]

\* The payloads proposed here: any ingress part, nothing else to reject.
IngressOnlyPayloads ==
    {Summary}
    \cup {Data(BatchPayload(ingress, EmptyXNet,
                            SelfValidatingPayload(MAX_XNET_PAYLOAD_IN_BYTES, TRUE))) :
            ingress \in SUBSET Messages}

GetPayloadSeen ==
    \E height \in PayloadHeights,
       past_payloads \in TimedPastPayloadSeqs, context \in TimedContexts :
        LET r == get_payload(ingress_payload_cache, height, Messages,
                             past_payloads, context)
        IN  /\ ingress_payload_cache' = r.ingress_payload_cache
            /\ pb' = seen_call("get_payload", r, past_payloads, context)
            /\ UNCHANGED <<registry, xnet_stream, selectors, conversion>>
            /\ UNCHANGED lock_vars
            /\ UNCHANGED ecdsa_vars

ValidatePayloadSeen ==
    \E payload \in IngressOnlyPayloads, past_payloads \in TimedPastPayloadSeqs,
       context \in TimedContexts :
        LET r == validate_payload(ingress_payload_cache, payload, past_payloads, context)
        IN  /\ ingress_payload_cache' = r.ingress_payload_cache
            /\ pb' = seen_call("validate_payload", r, past_payloads, context)
            /\ UNCHANGED <<registry, xnet_stream, selectors, conversion>>
            /\ UNCHANGED lock_vars
            /\ UNCHANGED ecdsa_vars

NextCache == GetPayloadSeen \/ ValidatePayloadSeen

SpecCache == InitCache /\ [][NextCache]_vars

----------------------------------------------------------------------------
(* Two threads calling one payload builder: a call step by step, from taking
   the write guard of the cache to dropping it on return. *)

\* The write guard given out whatever the state of the lock.
can_write_always(holder) == TRUE

\* RwLock::write: blocks the calling thread until no guard is out.
can_write(holder) == holder = NoThread

\* The ancestors the threads pass: data payloads, in descending height order.
ThreadPastPayloadSeqs ==
    {past \in PastPayloadSeqs : \A i \in 1..Len(past) : ~past[i][3].is_summary}

\* The calls: get_payload at the first height, validate_payload of a summary
\* payload or of the data payload with every message.
ThreadCalls ==
    [op : {"get_payload"}, height : {1}, payload : {Summary},
     past_payloads : ThreadPastPayloadSeqs, context : ValidationContexts]
    \cup [op : {"validate_payload"}, height : {1},
          payload : {Summary} \cup {payload \in IngressOnlyPayloads :
                                       payload.batch.ingress = Messages},
          past_payloads : ThreadPastPayloadSeqs, context : ValidationContexts]

\* The call as one step on the cache `cache`.
whole_call(call, cache) ==
    IF call.op = "get_payload"
    THEN get_payload(cache, call.height, Messages, call.past_payloads, call.context)
    ELSE validate_payload(cache, call.payload, call.past_payloads, call.context)

\* What the call leaves on record when it returns.
returned(call, cache) ==
    [op |-> call.op,
     result |-> whole_call(call, cache).result,
     calls |-> whole_call(call, cache).calls,
     cached |-> cached_keys(cache, call.past_payloads) # {}]

\* A thread enters get_payload or validate_payload; validate_payload returns at
\* once on a summary payload, and otherwise the thread asks for the write guard.
Call(t) ==
    /\ thread[t].pc = "idle"
    /\ \E call \in ThreadCalls :
        IF call.op = "validate_payload" /\ call.payload.is_summary
        THEN /\ pb' = returned(call, ingress_payload_cache)
             /\ UNCHANGED thread
        ELSE /\ thread' = [thread EXCEPT ![t] = [pc |-> "write", call |-> call]]
             /\ UNCHANGED pb
    /\ UNCHANGED <<ingress_payload_cache, rwlock, registry, xnet_stream, selectors, conversion>>
    /\ UNCHANGED ecdsa_vars

\* self.ingress_payload_cache.write().unwrap()
Write(t) ==
    /\ thread[t].pc = "write"
    /\ can_write(rwlock)
    /\ rwlock' = t
    /\ thread' = [thread EXCEPT ![t] = [pc |-> "entry", call |-> thread[t].call, i |-> 1,
                                        start |-> ingress_payload_cache]]
    /\ UNCHANGED <<ingress_payload_cache, pb, registry, xnet_stream, selectors, conversion>>
    /\ UNCHANGED ecdsa_vars

\* split_past_payloads, the next ancestor: the id set of a data payload is
\* looked up in the cache and put there when it is missing.
Entry(t) ==
    /\ thread[t].pc = "entry"
    /\ thread[t].i <= Len(thread[t].call.past_payloads)
    /\ LET height == thread[t].call.past_payloads[thread[t].i][1]
           payload == thread[t].call.past_payloads[thread[t].i][3]
           key == cache_key(height, payload)
       IN  ingress_payload_cache' =
               IF payload.is_summary \/ key \in DOMAIN ingress_payload_cache
               THEN ingress_payload_cache
               ELSE ingress_payload_cache @@ (key :> new_entry(payload.batch))
    /\ thread' = [thread EXCEPT ![t].i = @ + 1]
    /\ UNCHANGED <<rwlock, pb, registry, xnet_stream, selectors, conversion>>
    /\ UNCHANGED ecdsa_vars

\* split_past_payloads, the garbage collection below the height of the last
\* ancestor.
Collect(t) ==
    /\ thread[t].pc = "entry"
    /\ thread[t].i > Len(thread[t].call.past_payloads)
    /\ LET past_payloads == thread[t].call.past_payloads
           keys == IF past_payloads = <<>> THEN DOMAIN ingress_payload_cache
                   ELSE LET min_height == past_payloads[Len(past_payloads)][1]
                        IN  {key \in DOMAIN ingress_payload_cache :
                                ~garbage(key, min_height)}
       IN  ingress_payload_cache' = [key \in keys |-> ingress_payload_cache[key]]
    /\ thread' = [thread EXCEPT ![t].pc = "selectors"]
    /\ UNCHANGED <<rwlock, pb, registry, xnet_stream, selectors, conversion>>
    /\ UNCHANGED ecdsa_vars

\* The rest of the call, with the selectors, and the return, which drops the
\* write guard.
Return(t) ==
    /\ thread[t].pc = "selectors"
    /\ pb' = returned(thread[t].call, thread[t].start)
    /\ rwlock' = NoThread
    /\ thread' = [thread EXCEPT ![t] = Idle]
    /\ UNCHANGED <<ingress_payload_cache, registry, xnet_stream, selectors, conversion>>
    /\ UNCHANGED ecdsa_vars

NextLock == \E t \in Threads : Call(t) \/ Write(t) \/ Entry(t) \/ Collect(t) \/ Return(t)

SpecLock == InitCache /\ [][NextLock]_vars

----------------------------------------------------------------------------
(* The canonical encoding (encoding::types): the conversions of a stream
   header and of a request or response to their wire messages and back. *)

\* The certification versions are 0..CURRENT_CERTIFICATION_VERSION.
CURRENT_CERTIFICATION_VERSION == 2
\* The reject codes on the wire are 0..MaxWireCode.
MaxWireCode == 11

CertificationVersions == 0..CURRENT_CERTIFICATION_VERSION

\* Option<T>
None == [some |-> FALSE]
Some(x) == [some |-> TRUE, value |-> x]

\* RejectCode, in the order of its discriminants, from 1 on.
RejectCodes ==
    <<"SysFatal", "SysTransient", "DestinationInvalid", "CanisterReject", "CanisterError">>

\* The domain values: RejectContext, Payload, Request, Response, StreamHeader.
RejectContext(code, message) == [code |-> code, message |-> message]
PayloadData(bytes) == [variant |-> "Data", data |-> bytes]
PayloadReject(context) == [variant |-> "Reject", reject |-> context]
Request(payment, method_payload) ==
    [variant |-> "Request", receiver |-> "canister_1", sender |-> "canister_2",
     sender_reply_callback |-> 1, payment |-> payment, method_name |-> "method",
     method_payload |-> method_payload]
Response(refund, response_payload) ==
    [variant |-> "Response", originator |-> "canister_2", respondent |-> "canister_1",
     originator_reply_callback |-> 1, refund |-> refund,
     response_payload |-> response_payload]
StreamHeader(begin, end, signals_end) ==
    [variant |-> "StreamHeader", begin |-> begin, end |-> end, signals_end |-> signals_end]

Blobs == {<<>>, <<1>>}
Texts == {"Oops"}
Amounts == {0, 1}
StreamIndices == {0, 1}

RejectContexts ==
    {RejectContext(RejectCodes[i], message) : i \in DOMAIN RejectCodes, message \in Texts}
Payloads ==
    {PayloadData(bytes) : bytes \in Blobs}
    \cup {PayloadReject(context) : context \in RejectContexts}
Requests == {Request(payment, bytes) : payment \in Amounts, bytes \in Blobs}
Responses == {Response(refund, payload) : refund \in Amounts, payload \in Payloads}
StreamHeaders ==
    {StreamHeader(begin, end, signals_end) :
        begin \in StreamIndices, end \in StreamIndices, signals_end \in StreamIndices}

\* The well-formed domain values that are converted.
DomainValues == StreamHeaders \cup Requests \cup Responses

\* The wire messages: types::RejectContext, types::Payload, types::Request,
\* types::Response, types::RequestOrResponse, types::StreamHeader.
WireRejectContext(code, message) ==
    [type |-> "RejectContext", code |-> code, message |-> message]
WirePayload(data, reject) == [type |-> "Payload", data |-> data, reject |-> reject]
WireRequest(payment, method_payload) ==
    [type |-> "Request", receiver |-> "canister_1", sender |-> "canister_2",
     sender_reply_callback |-> 1, payment |-> payment, method_name |-> "method",
     method_payload |-> method_payload]
WireResponse(refund, response_payload) ==
    [type |-> "Response", originator |-> "canister_2", respondent |-> "canister_1",
     originator_reply_callback |-> 1, refund |-> refund,
     response_payload |-> response_payload]
WireRequestOrResponse(request, response) ==
    [type |-> "RequestOrResponse", request |-> request, response |-> response]
WireStreamHeader(begin, end, signals_end) ==
    [type |-> "StreamHeader", begin |-> begin, end |-> end, signals_end |-> signals_end]

\* The reject code with its discriminants counted from 0.
reject_code_index(code) ==
    (CHOOSE i \in DOMAIN RejectCodes : RejectCodes[i] = code) - 1

\* RejectCode as u8
reject_code_as_u8(code) ==
    CHOOSE i \in DOMAIN RejectCodes : RejectCodes[i] = code

\* u8::to_string: the decimal text of a number.
RECURSIVE to_string(_)
to_string(n) ==
    LET digit(d) == <<"0", "1", "2", "3", "4", "5", "6", "7", "8", "9">>[d + 1]
    IN  IF n < 10 THEN digit(n) ELSE to_string(n \div 10) \o digit(n % 10)

\* Result<T, ProxyDecodeError>
DecodeOk(value) == [ok |-> TRUE, value |-> value]
DecodeErr(error) == [ok |-> FALSE, error |-> error]
\* ProxyDecodeError::Other with the text (its backquotes written as apostrophes)
\* and the message it prints,
\* ProxyDecodeError::ValueOutOfRange
Other(expected, got) == [tag |-> "Other", expected |-> expected, got |-> got]
ValueOutOfRange(typ, err) == [tag |-> "ValueOutOfRange", typ |-> typ, err |-> err]

\* The conversions to the wire messages: From<(&T, CertificationVersion)>.
from_reject_context(context, certification_version) ==
    WireRejectContext(reject_code_as_u8(context.code), context.message)

from_payload(payload, certification_version) ==
    IF payload.variant = "Data"
    THEN WirePayload(Some(payload.data), None)
    ELSE WirePayload(None, Some(from_reject_context(payload.reject, certification_version)))

from_request_or_response(message, certification_version) ==
    IF message.variant = "Request"
    THEN WireRequestOrResponse(
            Some(WireRequest(message.payment, message.method_payload)), None)
    ELSE WireRequestOrResponse(
            None,
            Some(WireResponse(message.refund,
                              from_payload(message.response_payload, certification_version))))

from_stream_header(header, certification_version) ==
    WireStreamHeader(header.begin, header.end, header.signals_end)

\* The conversions back: TryFrom<types::T>.
try_from_reject_context(context) ==
    IF context.code \in DOMAIN RejectCodes
    THEN DecodeOk(RejectContext(RejectCodes[context.code], context.message))
    ELSE DecodeErr(ValueOutOfRange("RejectCode", to_string(context.code)))

\* The conversion of a payload that reads an absent `data` as empty data.
try_from_payload_or_empty(payload) ==
    IF payload.reject.some /\ ~payload.data.some
    THEN LET context == try_from_reject_context(payload.reject.value)
         IN  IF context.ok THEN DecodeOk(PayloadReject(context.value)) ELSE context
    ELSE DecodeOk(PayloadData(IF payload.data.some THEN payload.data.value ELSE <<>>))

try_from_payload(payload) ==
    IF payload.data.some /\ ~payload.reject.some
    THEN DecodeOk(PayloadData(payload.data.value))
    ELSE IF ~payload.data.some /\ payload.reject.some
    THEN LET context == try_from_reject_context(payload.reject.value)
         IN  IF context.ok THEN DecodeOk(PayloadReject(context.value)) ELSE context
    ELSE DecodeErr(Other("Payload: expected exactly one of 'data' or 'reject' to be 'Some(_)'",
                         payload))

try_from_request_or_response(message) ==
    IF message.request.some /\ ~message.response.some
    THEN DecodeOk(Request(message.request.value.payment,
                          message.request.value.method_payload))
    ELSE IF ~message.request.some /\ message.response.some
    THEN LET payload == try_from_payload(message.response.value.response_payload)
         IN  IF payload.ok
             THEN DecodeOk(Response(message.response.value.refund, payload.value))
             ELSE payload
    ELSE DecodeErr(Other(
            "RequestOrResponse: expected exactly one of 'request' or 'response' to be 'Some(_)'",
            message))

try_from_stream_header(header) ==
    DecodeOk(StreamHeader(header.begin, header.end, header.signals_end))

\* types::T::from((&x, certification_version)) and .try_into(), by the type.
encode(x, certification_version) ==
    IF x.variant = "StreamHeader" THEN from_stream_header(x, certification_version)
    ELSE from_request_or_response(x, certification_version)

decode(wire) ==
    CASE wire.type = "StreamHeader" -> try_from_stream_header(wire)
      [] wire.type = "RequestOrResponse" -> try_from_request_or_response(wire)
      [] wire.type = "Payload" -> try_from_payload(wire)
      [] wire.type = "RejectContext" -> try_from_reject_context(wire)

\* The wire messages a peer can send: any code, any combination of the options.
WireRejectContexts ==
    {WireRejectContext(code, message) : code \in 0..MaxWireCode, message \in Texts}
WirePayloads ==
    {WirePayload(data, reject) :
        data \in {None} \cup {Some(bytes) : bytes \in Blobs},
        reject \in {None} \cup {Some(context) : context \in WireRejectContexts}}
WireMessages ==
    WireRejectContexts
    \cup WirePayloads
    \cup {WireRequestOrResponse(request, response) :
            request \in {None, Some(WireRequest(1, <<>>))},
            response \in {None} \cup {Some(WireResponse(1, payload)) : payload \in WirePayloads}}

InitEncoding ==
    /\ unvalidated = {}
    /\ validated = {}
    /\ block = [height |-> 1, requested |-> {}]
    /\ schedule = 0
    /\ age = [i \in Indices |-> 0]
    /\ last = NoCall
    /\ removed = {}
    /\ consensus_crypto = NoFailure
    /\ PayloadBuilderIdle

\* A value is converted to its wire message at a certification version.
Encode ==
    /\ \E x \in DomainValues, certification_version \in CertificationVersions :
        conversion' = [op |-> "from", version |-> certification_version, value |-> x,
                       wire |-> encode(x, certification_version)]
    /\ UNCHANGED <<ingress_payload_cache, registry, xnet_stream, selectors, pb, rwlock, thread>>
    /\ UNCHANGED ecdsa_vars

\* The wire message just made is converted back.
Decode ==
    /\ conversion.op = "from"
    /\ conversion' = [op |-> "try_into", version |-> conversion.version,
                      value |-> conversion.value, wire |-> conversion.wire,
                      result |-> decode(conversion.wire)]
    /\ UNCHANGED <<ingress_payload_cache, registry, xnet_stream, selectors, pb, rwlock, thread>>
    /\ UNCHANGED ecdsa_vars

\* A wire message of a peer is converted.
TryFrom ==
    /\ \E wire \in WireMessages :
        conversion' = [op |-> "try_from", wire |-> wire, result |-> decode(wire)]
    /\ UNCHANGED <<ingress_payload_cache, registry, xnet_stream, selectors, pb, rwlock, thread>>
    /\ UNCHANGED ecdsa_vars

NextEncoding == Encode \/ Decode \/ TryFrom

SpecEncoding == InitEncoding /\ [][NextEncoding]_vars

----------------------------------------------------------------------------
(* Claims on the pre-signer *)

\* The index of a pass in the cycle of on_state_change.
IndexOf(pass) == CHOOSE i \in Indices : calls[i + 1] = pass

\* The last operation was an on_state_change call that returned the result of `pass`.
Returned(pass) ==
    /\ last.op = "on_state_change"
    /\ last.result # {}
    /\ schedule = (IndexOf(pass) + 1) % Len(calls)

\* C1: the validated pool never holds two dealings with the same
\* (transcript_id, dealer_id), nor two supports with the same
\* (transcript_id, dealer_id, signer), whatever gossip inserted and whatever
\* ChangeSets were applied.
C1_DuplicateSafety ==
    /\ \A x, y \in dealings(validated) : dealing_key(x) = dealing_key(y) => x = y
    /\ \A x, y \in dealing_support(validated) : support_key(x) = support_key(y) => x = y

\* validate_dealings has just rejected a gossiped dealing whose key a validated
\* dealing of a peer holds.
C1_Witness ==
    /\ Returned("validate_dealings")
    /\ \E e \in last.result :
        /\ e.act = "HandleInvalid"
        /\ e.msg.kind = "dealing"
        /\ e.msg.dealer_id # LocalNode
        /\ \E v \in dealings(validated) :
            v # e.msg /\ dealing_key(v) = dealing_key(e.msg)

\* The purge condition of the specification, on an artifact.
Purgeable(a) ==
    a.requested_height <= block.height /\ a.transcript_id \notin block.requested

\* C2: purge_artifacts emits exactly RemoveUnvalidated for the purgeable artifacts
\* of the unvalidated half and RemoveValidated for those of the validated half;
\* once applied, no purgeable artifact is left and every other artifact is kept.
C2_Purge ==
    LET change_set == purge_artifacts(EcdsaPool, block)
        pool == apply_changes(EcdsaPool, change_set)
    IN  /\ change_set =
                {RemoveUnvalidated(a) : a \in {x \in unvalidated : Purgeable(x)}}
                \cup {RemoveValidated(a) : a \in {x \in validated : Purgeable(x)}}
        /\ \A a \in pool.unvalidated \cup pool.validated : ~Purgeable(a)
        /\ pool.unvalidated = {a \in unvalidated : ~Purgeable(a)}
        /\ pool.validated = {a \in validated : ~Purgeable(a)}

\* The purge pass has just removed a validated artifact of a transcript that is
\* no longer requested, and kept an artifact of a requested one.
C2_Witness ==
    /\ Returned("purge_artifacts")
    /\ \E e \in last.result :
        /\ e.act = "RemoveValidated"
        /\ e.msg.requested_height <= block.height
        /\ e.msg.transcript_id \notin block.requested
        /\ e.msg \notin validated
    /\ \E a \in unvalidated \cup validated :
        a.requested_height <= block.height /\ a.transcript_id \in block.requested

\* C8: Action::action is Defer for a height above the finalized one, also for a
\* requested transcript; otherwise Process with the params of the requested
\* transcript of that id; otherwise Drop.
C8_Action ==
    \A h \in Heights, t \in TranscriptIds :
        LET a == action(block, h, t)
        IN  /\ a \in {Defer, Drop} \cup {Process(p) : p \in block.requested}
            /\ h > block.height => a = Defer
            /\ (h <= block.height /\ t \in block.requested) => a = Process(t)
            /\ (h <= block.height /\ t \notin block.requested) => a = Drop

\* validate_dealings has just dropped a dealing and left in the pool a dealing
\* of a requested transcript that is ahead of the finalized block.
C8_Witness ==
    /\ Returned("validate_dealings")
    /\ \E e \in last.result : e.act = "RemoveUnvalidated"
    /\ \E d \in dealings(unvalidated) :
        /\ d.requested_height > block.height
        /\ d.transcript_id \in block.requested
        /\ action(block, d.requested_height, d.transcript_id) = Defer

\* The five passes in the order of the specification.
PassOrder ==
    <<"send_dealings", "validate_dealings", "send_dealing_support",
      "validate_dealing_support", "purge_artifacts">>

\* C9: an on_state_change call runs the passes in the fixed cyclic order from the
\* cursor, returns the first non-empty result, or an empty one after all five,
\* and leaves the cursor behind the last pass it ran; nothing else moves the
\* cursor.
C9_RoundRobin ==
    [][ IF last'.op = "on_state_change"
        THEN \E n \in 0..(Len(PassOrder) - 1) :
                LET pass(j) == PassOrder[((schedule + j) % Len(PassOrder)) + 1]
                IN  /\ \A j \in 0..(n - 1) : {} \in pass_results(pass(j), EcdsaPool, block)
                    /\ last'.result \in pass_results(pass(n), EcdsaPool, block)
                    /\ last'.result # {} \/ n = Len(PassOrder) - 1
                    /\ schedule' = (schedule + n + 1) % Len(PassOrder)
        ELSE schedule' = schedule ]_vars

\* A call started at the third pass, found nothing to support, and returned the
\* result of validate_dealing_support.
C9_Witness ==
    /\ Returned("validate_dealing_support")
    /\ \E e \in last.result : e.act = "MoveToValidated" /\ e.msg.kind = "support"

\* C10: no pass is starved. Every pass is run at least once in any Len(calls)
\* on_state_change calls in a row, and, with on_state_change called again and
\* again, is run infinitely often.
C10_NoStarvation ==
    /\ [](\A i \in Indices : age[i] < Len(calls))
    /\ \A i \in Indices : []<>(last.op = "on_state_change" /\ age[i] = 0)

\* Purge was left out by four calls in a row, each returning the non-empty result
\* of an earlier pass.
C10_Witness ==
    /\ age[IndexOf("purge_artifacts")] = Len(calls) - 1
    /\ Returned("validate_dealing_support")

----------------------------------------------------------------------------
(* Claims on the passes of the pre-signer. Each one is stated on the pool and
   the finalized block of every reachable state, for every outcome of the
   crypto calls of the pass. *)

\* The entries of a ChangeSet for one artifact.
EntriesFor(change_set, a) == {e \in change_set : e.msg = a}

\* The classification of the specification, on an artifact.
Deferred(a) == a.requested_height > block.height
Processed(a) == a.requested_height <= block.height /\ a.transcript_id \in block.requested
Dropped(a) == a.requested_height <= block.height /\ a.transcript_id \notin block.requested

\* C11: when loading the dependencies and create_dealing succeed, send_dealings
\* emits exactly one AddToValidated dealing for each requested transcript that
\* the local node deals and has no validated dealing of the local node, and
\* nothing for any other transcript; every dealing it emits, whatever fails, is
\* one of these, by the local node at the height of the finalized block.
C11_SendDealings ==
    LET due(t) ==
            /\ t \in block.requested
            /\ LocalNode \in dealers(t)
            /\ ~\E d \in dealings(validated) :
                    d.transcript_id = t /\ d.dealer_id = LocalNode
        expected ==
            {AddToValidated(EcdsaDealing(block.height, t, LocalNode)) :
                t \in {x \in TranscriptIds : due(x)}}
    IN  /\ send_dealings(NoFailure, EcdsaPool, block) = expected
        /\ \A t \in TranscriptIds :
                Cardinality({e \in send_dealings(NoFailure, EcdsaPool, block) :
                                e.msg.transcript_id = t})
                = IF due(t) THEN 1 ELSE 0
        /\ \A c \in CreateOutcomes(block.requested) :
                send_dealings(c, EcdsaPool, block) \subseteq expected

\* send_dealings has just issued the dealing of the local node for the one
\* requested transcript it deals, and none for the other requested transcript;
\* called again on the pool that now holds the dealing, it issues nothing.
C11_Witness ==
    /\ Returned("send_dealings")
    /\ block.requested = TranscriptIds
    /\ last.result = {AddToValidated(EcdsaDealing(block.height, "id_1", LocalNode))}
    /\ EcdsaDealing(block.height, "id_1", LocalNode) \in validated
    /\ send_dealings(NoFailure, EcdsaPool, block) = {}

\* C12: for an unvalidated dealing whose key no other unvalidated dealing has,
\* validate_dealings emits exactly RemoveUnvalidated when it is classified Drop;
\* when it is classified Process, its dealer is a dealer of the transcript and
\* no validated dealing has its key, it emits exactly MoveToValidated if
\* verify_dealing_public succeeds, exactly HandleInvalid if it fails with a
\* replicated error, and nothing if it fails with another error.
C12_ValidateDealings ==
    \A c \in PublicOutcomes(dealings(unvalidated)) :
        \A d \in dealings(unvalidated) :
            LET entries == EntriesFor(validate_dealings(c, EcdsaPool, block), d)
                unique == \A x \in dealings(unvalidated) :
                            x # d => dealing_key(x) # dealing_key(d)
                fresh == ~\E v \in dealings(validated) : dealing_key(v) = dealing_key(d)
            IN  unique =>
                    /\ Dropped(d) => entries = {RemoveUnvalidated(d)}
                    /\ (Processed(d) /\ d.dealer_id \in dealers(d.transcript_id) /\ fresh)
                        => entries = IF d \in c.public_perm THEN {HandleInvalid(d)}
                                     ELSE IF d \in c.public_trans THEN {}
                                     ELSE {MoveToValidated(d)}

\* validate_dealings has just moved the dealing of a dealer to the validated
\* half and removed a dealing of a transcript that is not requested.
C12_Witness ==
    /\ Returned("validate_dealings")
    /\ \E e1, e2 \in last.result :
        /\ e1.act = "MoveToValidated"
        /\ e1.msg.kind = "dealing"
        /\ e1.msg.dealer_id \in dealers(e1.msg.transcript_id)
        /\ e1.msg \in validated
        /\ e2.act = "RemoveUnvalidated"
        /\ e2.msg.kind = "dealing"
        /\ e2.msg.transcript_id \notin block.requested
        /\ e2.msg \notin unvalidated

\* C13: when two or more unvalidated dealings share a (transcript_id, dealer_id)
\* key, validate_dealings emits HandleInvalid and nothing else for each of them,
\* and treats each dealing of a unique key as it does without the others in the
\* batch; validate_dealing_support does the same with the supports and their
\* (transcript_id, dealer_id, signer) keys.
C13_DuplicateInBatch ==
    /\ \A c \in PublicOutcomes(dealings(unvalidated)) :
            \A d \in dealings(unvalidated) :
                EntriesFor(validate_dealings(c, EcdsaPool, block), d)
                = IF \E x \in dealings(unvalidated) :
                        x # d /\ dealing_key(x) = dealing_key(d)
                  THEN {HandleInvalid(d)}
                  ELSE validate_dealings(c, [EcdsaPool EXCEPT !.unvalidated = {d}], block)
    /\ \A c \in VerifyOutcomes(dealing_support(unvalidated)) :
            \A s \in dealing_support(unvalidated) :
                EntriesFor(validate_dealing_support(c, EcdsaPool, block), s)
                = IF \E x \in dealing_support(unvalidated) :
                        x # s /\ support_key(x) = support_key(s)
                  THEN {HandleInvalid(s)}
                  ELSE validate_dealing_support(c, [EcdsaPool EXCEPT !.unvalidated = {s}],
                                                block)

\* validate_dealing_support has just rejected two supports of one key and, in
\* the same batch, moved a support of another signer for the same dealing to
\* the validated half.
C13_Witness ==
    /\ Returned("validate_dealing_support")
    /\ \E e1, e2, e3 \in last.result :
        /\ e1.act = "HandleInvalid" /\ e2.act = "HandleInvalid" /\ e1 # e2
        /\ e1.msg.kind = "support" /\ e2.msg.kind = "support"
        /\ support_key(e1.msg) = support_key(e2.msg)
        /\ e3.act = "MoveToValidated"
        /\ e3.msg.kind = "support"
        /\ dealing_key(e3.msg) = dealing_key(e1.msg)
        /\ e3.msg.signer # e1.msg.signer

\* C14: an unvalidated artifact classified Process that comes from a node
\* outside the role set of its transcript gets exactly HandleInvalid, whatever
\* the crypto engine would answer: a dealing whose dealer is no dealer of the
\* transcript, and a support whose signer is no receiver of it, also when no
\* validated dealing has its key.
C14_Unexpected ==
    /\ \A c \in PublicOutcomes(dealings(unvalidated)) :
            \A d \in dealings(unvalidated) :
                (Processed(d) /\ d.dealer_id \notin dealers(d.transcript_id))
                => EntriesFor(validate_dealings(c, EcdsaPool, block), d) = {HandleInvalid(d)}
    /\ \A c \in VerifyOutcomes(dealing_support(unvalidated)) :
            \A s \in dealing_support(unvalidated) :
                (Processed(s) /\ s.signer \notin receivers(s.transcript_id))
                => EntriesFor(validate_dealing_support(c, EcdsaPool, block), s)
                    = {HandleInvalid(s)}

\* validate_dealing_support has just rejected the one unvalidated support, of a
\* requested transcript and signed by a node that is no receiver of it, while
\* no validated dealing had its key.
C14_Witness ==
    /\ Returned("validate_dealing_support")
    /\ \E s \in Supports :
        /\ last.result = {HandleInvalid(s)}
        /\ s.requested_height <= block.height
        /\ s.transcript_id \in block.requested
        /\ s.signer \notin receivers(s.transcript_id)
        /\ dealing_key(s) \notin valid_dealings(EcdsaPool)
        /\ s \notin unvalidated

Passes == {calls[i + 1] : i \in Indices}

\* No pass has an entry for the artifact, and the pool keeps it unvalidated.
Kept(a) ==
    \A pass \in Passes :
        \A change_set \in pass_results(pass, EcdsaPool, block) :
            /\ EntriesFor(change_set, a) = {}
            /\ a \in apply_changes(EcdsaPool, change_set).unvalidated

\* No other unvalidated artifact of the same kind has the key of the artifact.
UniqueInBatch(a) ==
    \A x \in unvalidated :
        (x # a /\ x.kind = a.kind) => support_key(x) # support_key(a)

\* C16 as first stated: no pass emits an entry for an unvalidated dealing or
\* support whose requested_height is above the height of the finalized block,
\* and it stays in the unvalidated pool.
C16_DeferKept ==
    \A a \in unvalidated : Deferred(a) => Kept(a)

\* C16: no pass emits an entry for an unvalidated dealing or support whose
\* requested_height is above the height of the finalized block and whose key no
\* other unvalidated artifact of its kind shares, and it stays in the
\* unvalidated pool; one that shares its key gets HandleInvalid from its
\* validation pass.
C16_DeferKeptIfUnique ==
    \A a \in unvalidated :
        Deferred(a) =>
            IF UniqueInBatch(a)
            THEN Kept(a)
            ELSE LET pass == IF a.kind = "dealing" THEN "validate_dealings"
                             ELSE "validate_dealing_support"
                 IN  \A change_set \in pass_results(pass, EcdsaPool, block) :
                        EntriesFor(change_set, a) = {HandleInvalid(a)}

\* validate_dealing_support has just returned entries for other supports and
\* left in the unvalidated pool a support of a requested transcript, by a
\* receiver, that is ahead of the finalized block.
C16_Witness ==
    /\ Returned("validate_dealing_support")
    /\ \E s \in dealing_support(unvalidated) :
        /\ s.requested_height > block.height
        /\ s.transcript_id \in block.requested
        /\ s.signer \in receivers(s.transcript_id)
        /\ UniqueInBatch(s)
        /\ EntriesFor(last.result, s) = {}

\* The validated dealing is one the local node is to support: its transcript
\* is requested, the local node receives it, and no validated support of the
\* local node has its key.
SupportDue(d) ==
    /\ d.transcript_id \in block.requested
    /\ LocalNode \in receivers(d.transcript_id)
    /\ ~\E s \in dealing_support(validated) :
            dealing_key(s) = dealing_key(d) /\ s.signer = LocalNode

\* The entries of a ChangeSet that add a support of the dealing.
SupportsOf(change_set, d) ==
    {e \in change_set :
        e.act = "AddToValidated" /\ e.msg.kind = "support" /\ content(e.msg) = d}

\* C17: when verify_dealing_private and sign succeed, send_dealing_support
\* emits exactly one AddToValidated support, of the dealing and by the local
\* node, for each validated dealing of a requested transcript that the local
\* node receives and has no validated support of, and nothing else; once the
\* ChangeSet is applied, a second call on the same block returns nothing.
C17_SendSupport ==
    LET change_set == send_dealing_support(NoFailure, EcdsaPool, block)
    IN  /\ change_set =
                {AddToValidated(EcdsaDealingSupport(d, LocalNode)) :
                    d \in {x \in dealings(validated) : SupportDue(x)}}
        /\ \A d \in dealings(validated) :
                Cardinality(SupportsOf(change_set, d)) = IF SupportDue(d) THEN 1 ELSE 0
        /\ send_dealing_support(NoFailure, apply_changes(EcdsaPool, change_set), block) = {}

\* send_dealing_support has just added the support of the local node for the
\* one validated dealing it receives, none for a validated dealing it does not
\* receive, and a second call returns nothing.
C17_Witness ==
    /\ Returned("send_dealing_support")
    /\ \E d \in dealings(validated) :
        /\ last.result = {AddToValidated(EcdsaDealingSupport(d, LocalNode))}
        /\ EcdsaDealingSupport(d, LocalNode) \in validated
    /\ \E d \in dealings(validated) :
        /\ d.transcript_id \in block.requested
        /\ LocalNode \notin receivers(d.transcript_id)
    /\ send_dealing_support(NoFailure, EcdsaPool, block) = {}

\* C18: in send_dealing_support, for a validated dealing the local node is to
\* support: when verify_dealing_private fails with a replicated error, the
\* ChangeSet holds HandleInvalid of the dealing and no support of it; when it
\* fails with another error, or when sign fails, the ChangeSet holds no entry
\* for the dealing and the dealing stays validated.
C18_SupportFailure ==
    \A c \in PrivateOutcomes(dealings(validated)) :
        LET change_set == send_dealing_support(c, EcdsaPool, block)
        IN  \A d \in dealings(validated) :
                SupportDue(d) =>
                    /\ d \in c.private_perm =>
                            /\ EntriesFor(change_set, d) = {HandleInvalid(d)}
                            /\ SupportsOf(change_set, d) = {}
                    /\ d \in c.private_trans \cup c.sign_fail =>
                            /\ EntriesFor(change_set, d) = {}
                            /\ SupportsOf(change_set, d) = {}
                            /\ d \in apply_changes(EcdsaPool, change_set).validated

\* send_dealing_support has just marked a validated dealing invalid, added no
\* support of it, and the validated pool no longer holds the dealing.
C18_Witness ==
    /\ Returned("send_dealing_support")
    /\ \E d \in Dealings :
        /\ last.result = {HandleInvalid(d)}
        /\ LocalNode \in receivers(d.transcript_id)
        /\ d \notin validated
        /\ d \notin unvalidated
        /\ EcdsaDealingSupport(d, LocalNode) \notin validated

\* An unvalidated support classified Process, signed by a receiver, whose key
\* no other unvalidated support shares.
Expected(s) ==
    /\ s \in dealing_support(unvalidated)
    /\ Processed(s)
    /\ s.signer \in receivers(s.transcript_id)
    /\ UniqueInBatch(s)

\* The validated pool holds a dealing of the (transcript_id, dealer_id) of the support.
DealingValidated(s) == \E d \in dealings(validated) : dealing_key(d) = dealing_key(s)

\* The validated pool holds a support of the key of the support.
SupportValidated(s) == \E v \in dealing_support(validated) : support_key(v) = support_key(s)

Eligible(s) == Expected(s) /\ DealingValidated(s) /\ ~SupportValidated(s)

C20_Completed ==
    \A crypto \in BuildOutcomes(dealings(validated), block.requested) :
        LET state == completed_dealings(crypto, EcdsaPool, block)
            built == get_completed_transcripts(crypto, EcdsaPool, block)
            supports(d) == {s \in dealing_support(validated) :
                                dealing_key(s) = dealing_key(d)}
            enough(d) ==
                /\ d.transcript_id \in block.requested
                /\ Cardinality(supports(d)) >= verification_threshold(d.transcript_id)
                /\ d \notin crypto.aggregate_fail
            counted(d, map) ==
                /\ d.dealer_id \in DOMAIN map
                /\ map[d.dealer_id].content = d
        IN  /\ \A d \in dealings(validated) :
                /\ ~enough(d) =>
                        /\ \A t \in DOMAIN state : ~counted(d, state[t])
                        /\ \A transcript \in built : ~counted(d, transcript.verified_dealings)
                /\ enough(d) =>
                        /\ counted(d, state[d.transcript_id])
                        /\ state[d.transcript_id][d.dealer_id].signature.signers
                            = {s.signer : s \in supports(d)}
            /\ \A t \in DOMAIN state :
                    \A dealer_id \in DOMAIN state[t] :
                        state[t][dealer_id].content \in dealings(validated)

\* get_completed_transcripts has just built the transcript of a dealing that
\* both receivers support, and none for a requested transcript whose validated
\* dealing has no support.
C20_Witness ==
    /\ last.op = "get_completed_transcripts"
    /\ \E transcript \in last.result :
        /\ verification_threshold(transcript.transcript_id) > 1
        /\ \E d \in dealings(validated) :
            /\ d.dealer_id \in DOMAIN transcript.verified_dealings
            /\ transcript.verified_dealings[d.dealer_id].content = d
            /\ transcript.verified_dealings[d.dealer_id].signature.signers = Nodes
    /\ \E d \in dealings(validated) :
        /\ d.transcript_id \in block.requested
        /\ ~\E s \in dealing_support(validated) : dealing_key(s) = dealing_key(d)
        /\ \A transcript \in last.result : transcript.transcript_id # d.transcript_id

\* The validated dealings of a transcript that count as completed: supported by
\* verification_threshold many signers, with an aggregation that succeeds.
CompletedOf(crypto, t) ==
    {d \in dealings(validated) :
        /\ d.transcript_id = t
        /\ Cardinality({s \in dealing_support(validated) : dealing_key(s) = dealing_key(d)})
            >= verification_threshold(t)
        /\ d \notin crypto.aggregate_fail}

NewInPool == (unvalidated' \cup validated') \ (unvalidated \cup validated)

\* What the local node creates at this block: a dealing of its own at the height
\* of the block, a support it signs.
CreatedHere(a) ==
    \/ a.kind = "dealing" /\ a.dealer_id = LocalNode /\ a.requested_height = block.height
    \/ a.kind = "support" /\ a.signer = LocalNode

C31_TransientRetried ==
    /\ \A c \in PublicOutcomes(dealings(unvalidated)) :
        \A d \in c.public_trans :
            LET change_set == validate_dealings(c, EcdsaPool, block)
            IN  /\ EntriesFor(change_set, d)
                    = EntriesFor(validate_dealings(NoFailure, EcdsaPool, block), d)
                        \ {MoveToValidated(d)}
                /\ MoveToValidated(d) \in validate_dealings(NoFailure, EcdsaPool, block)
                    => d \in apply_changes(EcdsaPool, change_set).unvalidated
    /\ \A c \in PrivateOutcomes(dealings_to_support(EcdsaPool, block)) :
        \A d \in c.private_trans :
            LET change_set == send_dealing_support(c, EcdsaPool, block)
            IN  /\ EntriesFor(change_set, d) = {}
                /\ SupportsOf(change_set, d) = {}
                /\ d \in apply_changes(EcdsaPool, change_set).validated
    /\ \A c \in VerifyErrorOutcomes(dealing_support(unvalidated)) :
        \A s \in c.verify_trans :
            LET change_set == validate_dealing_support(c, EcdsaPool, block)
            IN  /\ EntriesFor(change_set, s)
                    = EntriesFor(validate_dealing_support(NoFailure, EcdsaPool, block), s)
                        \ {MoveToValidated(s)}
                /\ MoveToValidated(s) \in validate_dealing_support(NoFailure, EcdsaPool, block)
                    => s \in apply_changes(EcdsaPool, change_set).unvalidated

----------------------------------------------------------------------------
(* Claims on the payload builder. Each one is stated for every argument of a
   call, in every state of the cache, the registry and the selectors that the
   calls made so far can leave. *)

Max(a, b) == IF a >= b THEN a ELSE b

\* The byte budget of the specification, for a subnet record.
Budget(record) ==
    Max(record.max_block_payload_size,
        Max(MAX_XNET_PAYLOAD_IN_BYTES, record.max_ingress_bytes_per_message))

\* The payload get_payload built held what the selector returned within the limit.
Fitting(call) == call.count_bytes <= call.byte_limit /\ call.size <= call.byte_limit

\* C3: whenever the registry record is there and the ingress and xnet selectors
\* return data within the byte limits they are given, validate_payload accepts
\* the payload of get_payload, with the same past_payloads and context.
C3_BuiltPayloadIsValid ==
    \A height \in PayloadHeights, ingress_pool \in SUBSET Messages,
       past_payloads \in PastPayloadSeqs, context \in ValidationContexts :
        LET built == get_payload(ingress_payload_cache, height, ingress_pool,
                                 past_payloads, context)
        IN  (/\ built.result.ok
             /\ \A i \in 1..Len(built.calls) : Fitting(built.calls[i]))
            => validate_payload(built.ingress_payload_cache, Data(built.result.batch),
                                past_payloads, context).result = Ok

\* C4: get_payload returns what it returns on an empty cache, whatever the cache
\* holds: two calls with the same arguments return the same BatchPayload.
C4_Deterministic ==
    \A height \in PayloadHeights, ingress_pool \in SUBSET Messages,
       past_payloads \in PastPayloadSeqs, context \in ValidationContexts :
        get_payload(ingress_payload_cache, height, ingress_pool,
                    past_payloads, context).result
        = get_payload(EmptyCache, height, ingress_pool, past_payloads, context).result

\* get_payload has just built a payload with an id set it found in the cache,
\* and the cache holds the payloads of two forks at one height.
C4_Witness ==
    /\ pb.op = "get_payload"
    /\ pb.cached
    /\ pb.result.ok
    /\ pb.result.batch.ingress # {}
    /\ \E k1, k2 \in DOMAIN ingress_payload_cache : k1 # k2 /\ k1[1] = k2[1]

\* C5: with budget B, at an even height the xnet builder is called first with
\* limit B and the ingress selector then with B less the byte count of the xnet
\* payload, or 0; at an odd height the ingress selector is called first with B
\* and the xnet builder then with B less the byte count of the ingress payload,
\* or 0. The parity of the height alone decides the order.
C5_Parity ==
    \A height \in PayloadHeights, ingress_pool \in SUBSET Messages,
       past_payloads \in PastPayloadSeqs, context \in ValidationContexts :
        LET built == get_payload(ingress_payload_cache, height, ingress_pool,
                                 past_payloads, context)
            lookup == registry[context.registry_version]
            B == Budget(lookup.record)
            first == IF height % 2 = 0 THEN "xnet" ELSE "ingress"
            second == IF height % 2 = 0 THEN "ingress" ELSE "xnet"
            batch == built.result.batch
            bytes(selector) ==
                IF selector = "xnet" THEN batch.xnet.count_bytes
                ELSE Cardinality(batch.ingress)
        IN  lookup.tag = "Some" =>
                /\ built.calls[1].selector = first
                /\ built.calls[1].byte_limit = B
                /\ built.calls[1].count_bytes = bytes(first)
                /\ built.calls[2].selector = second
                /\ built.calls[2].byte_limit = Max(B - bytes(first), 0)
                /\ built.calls[2].count_bytes = bytes(second)

\* At an even height the xnet builder returned more than the budget and the
\* ingress selector was given the limit 0.
C5_Witness ==
    /\ pb.op = "get_payload"
    /\ pb.result.ok
    /\ pb.calls[1].selector = "xnet"
    /\ pb.calls[1].count_bytes > pb.calls[1].byte_limit
    /\ pb.calls[2].selector = "ingress"
    /\ pb.calls[2].byte_limit = 0

\* C6: for a data payload whose ingress and xnet parts their validators accept,
\* validate_payload returns Permanent(PayloadTooBig{expected = B, received =
\* xnet_size + byte count of ingress}) if and only if that sum is above B, with
\* xnet_size the size the xnet validator returned.
C6_PayloadTooBig ==
    \A payload \in ProposedPayloads \ {Summary},
       past_payloads \in PastPayloadSeqs, context \in ValidationContexts :
        LET checked == validate_payload(ingress_payload_cache, payload,
                                        past_payloads, context)
            lookup == registry[context.registry_version]
            B == Budget(lookup.record)
            batch == payload.batch
            xnet_size == validate_xnet_payload(batch.xnet, context, <<>>)
            received == xnet_size.size + Cardinality(batch.ingress)
        IN  (/\ lookup.tag = "Some"
             /\ validate_ingress_payload(batch.ingress, checked.ingress_query, context)
             /\ xnet_size.ok)
            => /\ received > B => checked.result = PayloadTooBig(B, received)
               /\ received <= B => checked.result.error # "PayloadTooBig"

\* validate_payload has just found too big a payload whose xnet part counts
\* fewer bytes than its canonical size, few enough to be within the budget.
C6_Witness ==
    /\ pb.op = "validate_payload"
    /\ pb.result.error = "PayloadTooBig"
    /\ pb.result.received > pb.result.expected
    /\ xnet_stream.count_bytes < xnet_stream.size
    /\ pb.result.received - xnet_stream.size + xnet_stream.count_bytes
        <= pb.result.expected

\* C7: get_payload and validate_payload use the budget B = max of
\* max_block_payload_size, MAX_XNET_PAYLOAD_IN_BYTES and
\* max_ingress_bytes_per_message of the subnet record; when the lookup fails or
\* finds no record, get_payload fails with RegistryUnavailable without a payload
\* and validate_payload of a data payload with Transient(RegistryUnavailable).
C7_Budget ==
    \A past_payloads \in PastPayloadSeqs, context \in ValidationContexts :
        LET lookup == registry[context.registry_version]
            B == Budget(lookup.record)
        IN  /\ \A height \in PayloadHeights, ingress_pool \in SUBSET Messages :
                LET built == get_payload(ingress_payload_cache, height, ingress_pool,
                                         past_payloads, context)
                IN  IF lookup.tag = "Some"
                    THEN built.result.ok /\ built.calls[1].byte_limit = B
                    ELSE /\ built.result = BuiltErr("RegistryUnavailable")
                         /\ built.calls = <<>>
            /\ \A payload \in ProposedPayloads \ {Summary} :
                LET checked == validate_payload(ingress_payload_cache, payload,
                                                past_payloads, context)
                IN  IF lookup.tag = "Some"
                    THEN /\ checked.result # Transient("RegistryUnavailable")
                         /\ checked.result.error = "PayloadTooBig"
                                => checked.result.expected = B
                    ELSE checked.result = Transient("RegistryUnavailable")

\* get_payload has just given the first selector the size of an ingress message
\* as the limit, above the block payload size of the record and the xnet size.
C7_Witness ==
    /\ pb.op = "get_payload"
    /\ pb.result.ok
    /\ \E version \in RegistryVersions :
        LET record == registry[version].record
        IN  /\ registry[version].tag = "Some"
            /\ record.max_ingress_bytes_per_message > record.max_block_payload_size
            /\ record.max_ingress_bytes_per_message > MAX_XNET_PAYLOAD_IN_BYTES
            /\ pb.calls[1].byte_limit = record.max_ingress_bytes_per_message

C28_SummaryIsOk ==
    \A past_payloads \in PastPayloadSeqs, context \in ValidationContexts :
        LET checked == validate_payload(ingress_payload_cache, Summary,
                                        past_payloads, context)
        IN  /\ checked.result = Ok
            /\ checked.calls = <<>>
            /\ checked.ingress_payload_cache = ingress_payload_cache

\* validate_payload has just accepted a summary payload with no subnet record
\* to be had and id sets in the cache.
C28_Witness ==
    /\ pb.op = "validate_payload"
    /\ pb.result = Ok
    /\ pb.calls = <<>>
    /\ \A version \in RegistryVersions : registry[version].tag # "Some"
    /\ ingress_payload_cache # EmptyCache

\* The payload with a self-validating part of another size.
WithSelfValidatingBytes(payload, count) ==
    Data([payload.batch EXCEPT !.self_validating.count_bytes = count])

\* C29: get_payload asks for the self-validating payload last, with the limit
\* MAX_XNET_PAYLOAD_IN_BYTES at every height, and the limits it gives the
\* ingress and xnet selectors are the budget and the budget less the bytes of
\* the part built first; validate_payload returns the same result for data
\* payloads that differ in the size of the self-validating part only, and the
\* size it reports as received is the xnet size plus the ingress bytes.
C29_SelfValidatingApart ==
    /\ \A height \in PayloadHeights, ingress_pool \in SUBSET Messages,
          past_payloads \in PastPayloadSeqs, context \in ValidationContexts :
        LET built == get_payload(ingress_payload_cache, height, ingress_pool,
                                 past_payloads, context)
            lookup == registry[context.registry_version]
            B == Budget(lookup.record)
        IN  lookup.tag = "Some" =>
                /\ Len(built.calls) = 3
                /\ built.calls[3].selector = "self_validating"
                /\ built.calls[3].byte_limit = MAX_XNET_PAYLOAD_IN_BYTES
                /\ built.calls[1].byte_limit = B
                /\ built.calls[2].byte_limit = Max(B - built.calls[1].count_bytes, 0)
    /\ \A payload \in ProposedPayloads \ {Summary},
          past_payloads \in PastPayloadSeqs, context \in ValidationContexts :
        LET checked == validate_payload(ingress_payload_cache, payload,
                                        past_payloads, context)
            batch == payload.batch
        IN  /\ \A count \in 0..(MaxRecordBytes + 1) :
                    validate_payload(ingress_payload_cache,
                                     WithSelfValidatingBytes(payload, count),
                                     past_payloads, context).result
                    = checked.result
            /\ checked.result.error = "PayloadTooBig"
                => checked.result.received
                   = batch.xnet.size + Cardinality(batch.ingress)

\* get_payload has just built a payload whose ingress and xnet parts fill the
\* budget and whose self-validating part has the size of its own limit.
C29_Witness ==
    /\ pb.op = "get_payload"
    /\ pb.result.ok
    /\ pb.calls[1].count_bytes + pb.calls[2].count_bytes = pb.calls[1].byte_limit
    /\ pb.calls[3].selector = "self_validating"
    /\ pb.calls[3].count_bytes = MAX_XNET_PAYLOAD_IN_BYTES
    /\ pb.result.batch.self_validating.count_bytes > 0

----------------------------------------------------------------------------
(* Claims on the cache of the payload builder, for every argument of a call in
   every state of the cache that the calls made so far can leave. *)

\* The lowest height of the ancestors.
Lowest(past_payloads) ==
    CHOOSE h \in {past_payloads[i][1] : i \in 1..Len(past_payloads)} :
        \A i \in 1..Len(past_payloads) : h <= past_payloads[i][1]

\* The cache keys of the non-summary ancestors.
AncestorKeys(past_payloads) ==
    {<<p[1], get_hash(p[3])>> :
        p \in {past_payloads[i] : i \in {j \in 1..Len(past_payloads) :
                                            ~past_payloads[j][3].is_summary}}}

\* What a call leaves and asks.
Seen(r) == [ingress_payload_cache |-> r.ingress_payload_cache,
            ingress_query |-> r.ingress_query]

\* The caches and ingress queries that the calls with these ancestors leave:
\* get_payload at every height, validate_payload on every data payload.
CallsWith(past_payloads, context) ==
    {Seen(get_payload(ingress_payload_cache, height, Messages, past_payloads, context)) :
        height \in PayloadHeights}
    \cup {Seen(validate_payload(ingress_payload_cache, payload, past_payloads, context)) :
            payload \in IngressOnlyPayloads \ {Summary}}

\* C23: after a get_payload call, or a validate_payload call on a data payload,
\* with a non-empty past_payloads in descending height order, every key of the
\* cache has a height that is at least the lowest ancestor height of the call.
C23_CacheGC ==
    \A past_payloads \in TimedPastPayloadSeqs \ {<<>>}, context \in TimedContexts :
        \A r \in CallsWith(past_payloads, context) :
            \A key \in DOMAIN r.ingress_payload_cache : key[1] >= Lowest(past_payloads)

\* A call with ancestors has just dropped an entry and left others in the cache.
C23_Witness ==
    /\ pb.op \in {"get_payload", "validate_payload"}
    /\ pb.ancestors > 0
    /\ pb.evicted
    /\ ingress_payload_cache # EmptyCache

\* C24: whatever the cache holds, the ingress query of get_payload and of
\* validate_payload has one id set for each non-summary ancestor, in order, the
\* message ids of the ingress payload of that ancestor, and the call returns
\* what it returns on an empty cache; no call changes an id set that stays in
\* the cache.
C24_CacheIsAnAid ==
    /\ [](\A past_payloads \in TimedPastPayloadSeqs, context \in TimedContexts :
            LET data == data_payloads(past_payloads)
                sets == [i \in 1..Len(data) |-> message_ids(data[i][3].batch.ingress)]
            IN  /\ \A r \in CallsWith(past_payloads, context) :
                        r.ingress_query.hash_sets = sets
                /\ \A height \in PayloadHeights :
                        get_payload(ingress_payload_cache, height, Messages,
                                    past_payloads, context).result
                        = get_payload(EmptyCache, height, Messages,
                                      past_payloads, context).result
                /\ \A payload \in IngressOnlyPayloads :
                        validate_payload(ingress_payload_cache, payload,
                                         past_payloads, context).result
                        = validate_payload(EmptyCache, payload, past_payloads, context).result)
    /\ [][\A key \in DOMAIN ingress_payload_cache \cap DOMAIN ingress_payload_cache' :
            ingress_payload_cache'[key] = ingress_payload_cache[key]]_vars

\* validate_payload has just rejected an ingress part for a message of an
\* ancestor whose id set it found in the cache.
C24_Witness ==
    /\ pb.op = "validate_payload"
    /\ pb.cached
    /\ pb.result = Permanent("InvalidIngressPayload")

\* C25 as stated: after a call the cache has at most as many entries as the
\* call was given ancestors.
C25_CacheSize ==
    \A past_payloads \in TimedPastPayloadSeqs, context \in TimedContexts :
        \A r \in CallsWith(past_payloads, context) :
            Cardinality(DOMAIN r.ingress_payload_cache) <= Len(past_payloads)

\* C25: after a call the cache holds the entries of the non-summary ancestors
\* of the call, at most one for each ancestor, and of the entries it held before
\* those at the lowest ancestor height or above (all of them when past_payloads
\* is empty), and nothing else; so it has at most as many entries as the call
\* was given ancestors when it held no entry of another payload at these
\* heights.
C25_CacheHolds ==
    \A past_payloads \in TimedPastPayloadSeqs, context \in TimedContexts :
        \A r \in CallsWith(past_payloads, context) :
            LET kept == {key \in DOMAIN ingress_payload_cache :
                            \/ past_payloads = <<>>
                            \/ key[1] >= Lowest(past_payloads)}
            IN  /\ DOMAIN r.ingress_payload_cache = AncestorKeys(past_payloads) \cup kept
                /\ Cardinality(AncestorKeys(past_payloads)) <= Len(past_payloads)
                /\ kept \subseteq AncestorKeys(past_payloads)
                    => Cardinality(DOMAIN r.ingress_payload_cache) <= Len(past_payloads)

\* A call with ancestors has just left more entries in the cache than it was
\* given ancestors: the cache holds the payloads of two forks at one height.
C25_Witness ==
    /\ pb.op \in {"get_payload", "validate_payload"}
    /\ pb.ancestors > 0
    /\ Cardinality(DOMAIN ingress_payload_cache) > pb.ancestors
    /\ \E k1, k2 \in DOMAIN ingress_payload_cache : k1 # k2 /\ k1[1] = k2[1]

----------------------------------------------------------------------------
(* Claims on concurrent calls of the payload builder *)

\* The threads between taking the write guard and returning.
Inside == {t \in Threads : thread[t].pc \in {"entry", "selectors"}}

\* C30: concurrent get_payload and validate_payload calls exclude each other on
\* the cache: a thread holds the write guard from its first access of the cache
\* until it returns, so at most one thread is between the two; only that thread
\* changes the cache; and when its lookups, insertions and garbage collection
\* are done, the cache is what the call makes, alone, of the cache it found.
C30_MutualExclusion ==
    /\ [](/\ \A t \in Inside : rwlock = t
          /\ Cardinality(Inside) <= 1
          /\ \A t \in Threads :
                thread[t].pc = "selectors"
                => ingress_payload_cache
                   = split_past_payloads(thread[t].start,
                                         thread[t].call.past_payloads).ingress_payload_cache)
    /\ [][ingress_payload_cache' # ingress_payload_cache
            => /\ rwlock \in Inside
               /\ rwlock' = rwlock
               /\ thread'[rwlock] # thread[rwlock]
               /\ \A t \in Threads \ {rwlock} : thread'[t] = thread[t]]_vars

\* A thread has put id sets into the cache and collected others, and holds the
\* write guard, while the other thread waits for it in a call of its own.
C30_Witness ==
    \E t \in Threads, u \in Threads :
        /\ thread[t].pc = "selectors"
        /\ rwlock = t
        /\ DOMAIN thread[t].start \ DOMAIN ingress_payload_cache # {}
        /\ DOMAIN ingress_payload_cache \ DOMAIN thread[t].start # {}
        /\ thread[u].pc = "write"

----------------------------------------------------------------------------
(* Claims on the canonical encoding *)

\* A wire message with the options, or the code, that no value is encoded to.
Malformed(wire) ==
    CASE wire.type = "RequestOrResponse" -> wire.request.some = wire.response.some
      [] wire.type = "Payload" -> wire.data.some = wire.reject.some
      [] wire.type = "RejectContext" -> wire.code \notin DOMAIN RejectCodes
      [] OTHER -> FALSE

C34_Malformed ==
    /\ \A wire \in WireMessages : Malformed(wire) => ~decode(wire).ok
    /\ decode(WireRequestOrResponse(None, None))
        = DecodeErr(Other(
            "RequestOrResponse: expected exactly one of 'request' or 'response' to be 'Some(_)'",
            WireRequestOrResponse(None, None)))
    /\ decode(WirePayload(None, None))
        = DecodeErr(Other(
            "Payload: expected exactly one of 'data' or 'reject' to be 'Some(_)'",
            WirePayload(None, None)))
    /\ \A message \in Texts :
        /\ decode(WireRejectContext(0, message))
            = DecodeErr(ValueOutOfRange("RejectCode", "0"))
        /\ decode(WireRejectContext(Len(RejectCodes) + 1, message))
            = DecodeErr(ValueOutOfRange("RejectCode", "6"))
        /\ decode(WireRejectContext(MaxWireCode, message)).error.typ = "RejectCode"
        /\ Len(decode(WireRejectContext(MaxWireCode, message)).error.err) > 1
    /\ (conversion.op = "try_from" /\ Malformed(conversion.wire)) => ~conversion.result.ok

\* A RejectContext with the code after the largest reject code has just been
\* refused with the decimal text of the code.
C34_Witness ==
    /\ conversion.op = "try_from"
    /\ conversion.wire.type = "RejectContext"
    /\ conversion.wire.code = Len(RejectCodes) + 1
    /\ conversion.result = DecodeErr(ValueOutOfRange("RejectCode", "6"))

----------------------------------------------------------------------------
(* Claims on the pre-signer left to itself *)

\* on_state_change returns an empty ChangeSet on the pool as it is.
Quiet ==
    \A r \in on_state_change_with(consensus_crypto, schedule, EcdsaPool, block) :
        r.result = {}

\* C35: with one finalized block, no gossip and a deterministic crypto
\* component, calling on_state_change again and again and applying each
\* ChangeSet leads to a pool on which on_state_change returns an empty
\* ChangeSet, and it stays so: no artifact is removed and made again for ever.
C35_Quiescence == <>[]Quiet

\* The artifacts of the pool that the finalized block has left behind.
Garbage ==
    {a \in unvalidated \cup validated :
        a.requested_height <= block.height /\ a.transcript_id \notin block.requested}

\* C36: with on_state_change called again and again, every dealing and support,
\* in either half of the pool, whose requested_height is at most the finalized
\* height and whose transcript the finalized block does not request is in the
\* end removed: again and again the pool holds no such artifact, and an artifact
\* that a ChangeSet leaves in the pool while the purge ran is none of them.
C36_GarbageCollected ==
    /\ []<>(Garbage = {})
    /\ [](\A r \in on_state_change(schedule, EcdsaPool, block) :
            (4 \in r.ran /\ r.result = {}) => Garbage = {})

\* A ChangeSet has just removed, from the validated half, a support dealt below
\* the finalized height whose transcript the block requests no more.
C36_Witness ==
    /\ last.op = "on_state_change"
    /\ \E e \in last.result :
        /\ e.act = "RemoveValidated"
        /\ e.msg.kind = "support"
        /\ e.msg.requested_height < block.height
        /\ e.msg.transcript_id \notin block.requested
        /\ e.msg \notin validated

----------------------------------------------------------------------------
(* Claims on the supports and their dealings *)

\* C37: every validated support that get_completed_transcripts counts for a
\* validated dealing signs that very dealing, with the same requested_height
\* and not only the same (transcript_id, dealer_id); and validate_dealing_support
\* moves no support to the validated half whose content differs from the
\* validated dealing of its key.
C37_SupportSignsDealing ==
    /\ \A dealing \in dealings(validated) :
        \A support \in support_shares_of(EcdsaPool, dealing) : content(support) = dealing
    /\ \A c \in VerifyOutcomes(dealing_support(unvalidated)) :
        \A e \in validate_dealing_support(c, EcdsaPool, block) :
            e.act = "MoveToValidated" =>
                \A dealing \in dealings(validated) :
                    dealing_key(dealing) = dealing_key(e.msg) => content(e.msg) = dealing

\* The validated supports of the pool whose (transcript_id, dealer_id) no
\* validated dealing has.
Orphans(ecdsa_pool) ==
    {support \in dealing_support(ecdsa_pool.validated) :
        dealing_key(support) \notin valid_dealings(ecdsa_pool)}

\* C38: every validated support has a validated dealing with its
\* (transcript_id, dealer_id), and no ChangeSet of on_state_change removes a
\* validated dealing and leaves a validated support of it in the pool.
C38_SupportHasDealing ==
    /\ Orphans(EcdsaPool) = {}
    /\ \A r \in on_state_change(schedule, EcdsaPool, block) :
        Orphans(apply_changes(EcdsaPool, r.result)) = {}

----------------------------------------------------------------------------
(* Claims on the classifier and the purge *)

\* C39: Action::action returns Drop for a message exactly when should_purge
\* is true of it, on every block; an artifact that the classifier defers or
\* processes is in no ChangeSet of purge_artifacts.
C39_DropIsPurge ==
    /\ \A b \in Blocks, a \in Artifacts :
        (action(b, a.requested_height, a.transcript_id) = Drop)
            <=> should_purge(content(a), b.height, b.requested)
    /\ \A e \in purge_artifacts(EcdsaPool, block) :
        action(block, e.msg.requested_height, e.msg.transcript_id) = Drop

\* A ChangeSet has just purged a validated artifact, which the classifier drops
\* on the finalized block.
C39_Witness ==
    /\ last.op = "on_state_change"
    /\ \E e \in last.result :
        /\ e.act = "RemoveValidated"
        /\ e.msg \notin validated
        /\ action(block, e.msg.requested_height, e.msg.transcript_id) = Drop

----------------------------------------------------------------------------
(* Claims on the ChangeSets *)

\* The key of an artifact: (transcript_id, dealer_id) of a dealing,
\* (transcript_id, dealer_id, signer) of a support.
ArtifactKey(a) == <<a.kind, a.transcript_id, a.dealer_id, a.signer>>

\* C40: every ChangeSet that on_state_change returns holds at most one action
\* for an artifact id and at most one AddToValidated for an artifact key, and
\* applying two of its actions in either order gives the same pool.
C40_OneActionPerArtifact ==
    \A r \in on_state_change(schedule, EcdsaPool, block) :
        \A e1 \in r.result, e2 \in r.result :
            /\ e1.msg = e2.msg => e1 = e2
            /\ (/\ e1.act = "AddToValidated"
                /\ e2.act = "AddToValidated"
                /\ ArtifactKey(e1.msg) = ArtifactKey(e2.msg)) => e1 = e2
            /\ apply_changes(apply_changes(EcdsaPool, {e1}), {e2})
                = apply_changes(apply_changes(EcdsaPool, {e2}), {e1})

\* A ChangeSet has just added two dealings of the local node to a validated
\* half that held an artifact.
C40_Witness ==
    /\ last.op = "on_state_change"
    /\ Cardinality({e \in last.result : e.act = "AddToValidated"}) = 2
    /\ Cardinality(validated) >= 3

====
